---- MODULE Spec2Model ----
(***************************************************************************)
(* Attendance eligibility engine of the internship ERP                     *)
(* (server/utils/attendance.ts) and the handlers that call it: the faculty *)
(* mark-attendance and validate handlers (routes/faculty.ts, kept in       *)
(* src/unnamed/part_003), the admin holiday and sync handlers              *)
(* (routes/admin.ts, kept in src/unnamed/part_004), the student dashboard  *)
(* (routes/student.ts) and the sync scheduler (utils/syncScheduler.ts),    *)
(* over the in-memory DataStore (kept in src/server/utils/logger.ts).      *)
(*                                                                         *)
(* Calendar dates.  A "YYYY-MM-DD" string is modelled by its day number:   *)
(* day 0 is Monday 2024-03-04, day 1 Tuesday 2024-03-05, and so on.        *)
(* String equality and Array.includes on date strings are equality and     *)
(* membership of day numbers.  A JavaScript Date is an instant, counted    *)
(* in hours since day 0 00:00 UTC.  new Date("YYYY-MM-DD") yields UTC      *)
(* midnight of that day; getDay() and getDate() read the instant in the    *)
(* LOCAL timezone of the process; toISOString() reads it in UTC.  The      *)
(* timezone offset of the process (tz, hours east of UTC, no daylight      *)
(* saving) belongs to the environment and is fixed when a run starts.      *)
(*                                                                         *)
(* Every date string is a calendar date, but in SpecMalformed, which draws *)
(* strings that new Date() does not parse as well.  A holidays             *)
(* array is read through includes() only and is modelled by the set of its *)
(* elements.                                                               *)
(***************************************************************************)
EXTENDS Integers, Sequences, FiniteSets, TLC

VARIABLES
    tz,          \* timezone offset of the server process, hours east of UTC
    input,       \* arguments the next engine call is made with
    validation,  \* what validateAttendanceMarkable returned, once called
    call,        \* the last call of another engine function and its value
    students,    \* DataStore.students: student id -> policy and email
    attendance,  \* DataStore.attendance: student email -> array of records
    storedHolidays, \* DataStore.holidays: holiday id -> Holiday
    response,    \* the last HTTP response of a handler
    scheduler    \* the SyncScheduler, its timers and its pending fetches

vars ==
    <<tz, input, validation, call, students, attendance, storedHolidays,
      response, scheduler>>

\* new SyncScheduler(...): no timer, no sync yet.  intervalId and
\* lastSyncTime are 0 for null.  timers are the interval timers alive in the
\* event loop, awaiting the number of runSyncNow calls suspended at their
\* await.  lastSyncDuration and lastError are left out.
NewScheduler ==
    [intervalId |-> 0, lastSyncTime |-> 0, isRunning |-> FALSE,
     stats |-> [totalSyncs |-> 0, successfulSyncs |-> 0, failedSyncs |-> 0],
     timers |-> {}, awaiting |-> 0]

(***************************************************************************)
(* Bounds of the model.                                                    *)
(***************************************************************************)
\* Dates are the day numbers 0 .. NumDays-1: week one (Mon..Sun) and the
\* first day(s) of week two.
NumDays == 8
\* Longest existingAttendance array handed to the validator.
MaxExisting == 2

Dates == 0 .. (NumDays - 1)
\* New York winter time, UTC, India without the half hour.
TZOffsets == {-5, 0, 5}
Statuses == {"present", "absent"}

(***************************************************************************)
(* JavaScript Date, as far as attendance.ts uses it.                       *)
(***************************************************************************)
HoursPerDay == 24

\* new Date("YYYY-MM-DD"): a date-only ISO string is UTC midnight.
NewDate(dateStr) == dateStr * HoursPerDay

\* Date.prototype.getTime(): the instant itself.
GetTime(t) == t

\* The calendar day the instant falls on in the local timezone.
LocalDay(t) == (t + tz) \div HoursPerDay

\* Date.prototype.getDay(): local weekday, 0 = Sunday .. 6 = Saturday.
\* Day 0 is a Monday.
GetDay(t) == (LocalDay(t) + 1) % 7

\* date.setDate(date.getDate() + k): local calendar arithmetic; with a fixed
\* offset it moves the instant by k whole days.
SetDatePlus(t, k) == t + k * HoursPerDay

\* toISOString().split("T")[0]: the calendar day of the instant in UTC.
ToISODate(t) == t \div HoursPerDay

\* The weekday of a calendar date itself (0 = Sunday .. 6 = Saturday).
CalendarWeekday(d) == (d + 1) % 7
IsSatOrSun(d) == CalendarWeekday(d) \in {0, 6}
\* The latest Monday on or before d.
MondayOf(d) == d - (d % 7)

(***************************************************************************)
(* attendance.ts                                                           *)
(***************************************************************************)
RangeReason == "Date is outside internship period"
WeekendReason == "Cannot mark attendance on weekends"
HolidayReason == "Cannot mark attendance on holidays"
DuplicateReason == "Attendance already marked for this date"
\* `Weekly attendance limit exceeded (${daysPerWeekAllowed} days per week allowed)`
WeeklyLimitReason(daysPerWeekAllowed) ==
    "Weekly attendance limit exceeded (" \o ToString(daysPerWeekAllowed)
        \o " days per week allowed)"

isWeekend(dateStr) ==
    LET dayOfWeek == GetDay(NewDate(dateStr))
    IN  dayOfWeek = 0 \/ dayOfWeek = 6

isValidWorkingDay(dateStr, holidays) ==
    IF isWeekend(dateStr)
    THEN [isValid |-> FALSE, reason |-> WeekendReason]
    ELSE IF dateStr \in holidays
    THEN [isValid |-> FALSE, reason |-> HolidayReason]
    ELSE [isValid |-> TRUE, reason |-> ""]

\* A range check that leaves the end date out.
isWithinInternshipPeriod_EndExclusive(date, startDate, endDate) ==
    LET checkDate == GetTime(NewDate(date))
        start == GetTime(NewDate(startDate))
        end == GetTime(NewDate(endDate))
    IN  checkDate >= start /\ checkDate < end

isWithinInternshipPeriod(date, startDate, endDate) ==
    LET checkDate == GetTime(NewDate(date))
        start == GetTime(NewDate(startDate))
        end == GetTime(NewDate(endDate))
    IN  checkDate >= start /\ checkDate <= end

\* The while loop of getWorkingDaysInRange, from instant `current`.
RECURSIVE WorkingDaysLoop(_, _, _)
WorkingDaysLoop(current, end, holidays) ==
    IF current <= end
    THEN LET dateStr == ToISODate(current)
             rest == WorkingDaysLoop(SetDatePlus(current, 1), end, holidays)
         IN  IF ~isWeekend(dateStr) /\ dateStr \notin holidays
             THEN <<dateStr>> \o rest
             ELSE rest
    ELSE <<>>

getWorkingDaysInRange(startDate, endDate, holidays) ==
    WorkingDaysLoop(NewDate(startDate), NewDate(endDate), holidays)

\* The while loop of getNextWorkingDay, from instant `current`.
RECURSIVE NextWorkingDayLoop(_, _)
NextWorkingDayLoop(current, holidays) ==
    IF isWeekend(ToISODate(current)) \/ ToISODate(current) \in holidays
    THEN NextWorkingDayLoop(SetDatePlus(current, 1), holidays)
    ELSE current

getNextWorkingDay(dateStr, holidays) ==
    LET current == SetDatePlus(NewDate(dateStr), 1)
    IN  ToISODate(NextWorkingDayLoop(current, holidays))

getWorkingDaysInWeek(dateStr, holidays) ==
    LET date == NewDate(dateStr)
        dayOfWeek == GetDay(date)
        monday == SetDatePlus(date, 1 - dayOfWeek)
        friday == SetDatePlus(monday, 4)
    IN  getWorkingDaysInRange(ToISODate(monday), ToISODate(friday), holidays)

\* Array.prototype.includes on an array of date strings.
Includes(array, x) == \E j \in 1..Len(array) : array[j] = x

\* attendance.ts 173-176: the range check and what it pushes onto errors.
rangePush(date, internshipStartDate, internshipEndDate) ==
    IF ~isWithinInternshipPeriod(date, internshipStartDate, internshipEndDate)
    THEN <<RangeReason>>
    ELSE <<>>

\* attendance.ts 178-182: the working-day check; `reason || "Not a working
\* day"` falls back when isValidWorkingDay gave no reason.
workingDayPush(date, holidays) ==
    LET wd == isValidWorkingDay(date, holidays)
    IN  IF ~wd.isValid
        THEN <<IF wd.reason # "" THEN wd.reason ELSE "Not a working day">>
        ELSE <<>>

\* A validator without the duplicate check.
duplicatePush_NoCheck(date, existingAttendance) == <<>>

\* attendance.ts 184-187: existingAttendance.some((a) => a.date === date).
duplicatePush(date, existingAttendance) ==
    IF \E i \in 1..Len(existingAttendance) :
           existingAttendance[i].date = date
    THEN <<DuplicateReason>>
    ELSE <<>>

\* A weekly limit that counts the present records only.
weeklyPush_PresentOnly(date, daysPerWeekAllowed, holidays, existingAttendance) ==
    LET weekWorkingDays == getWorkingDaysInWeek(date, holidays)
        weekAttendance ==
            SelectSeq(existingAttendance,
                      LAMBDA a : /\ Includes(weekWorkingDays, a.date)
                                 /\ a.status = "present")
    IN  IF Len(weekAttendance) >= daysPerWeekAllowed
        THEN <<WeeklyLimitReason(daysPerWeekAllowed)>>
        ELSE <<>>

\* A weekly limit compared with > where the code has >=.
weeklyPush_OffByOne(date, daysPerWeekAllowed, holidays, existingAttendance) ==
    LET weekWorkingDays == getWorkingDaysInWeek(date, holidays)
        weekAttendance ==
            SelectSeq(existingAttendance,
                      LAMBDA a : Includes(weekWorkingDays, a.date))
    IN  IF Len(weekAttendance) > daysPerWeekAllowed
        THEN <<WeeklyLimitReason(daysPerWeekAllowed)>>
        ELSE <<>>

\* attendance.ts 189-199: the weekly limit, counted over the records dated
\* on a working day of the date's week.
weeklyPush(date, daysPerWeekAllowed, holidays, existingAttendance) ==
    LET weekWorkingDays == getWorkingDaysInWeek(date, holidays)
        weekAttendance ==
            SelectSeq(existingAttendance,
                      LAMBDA a : Includes(weekWorkingDays, a.date))
    IN  IF Len(weekAttendance) >= daysPerWeekAllowed
        THEN <<WeeklyLimitReason(daysPerWeekAllowed)>>
        ELSE <<>>

\* The array handed to validateAttendanceMarkable as existingAttendance,
\* after the call.  The validator applies some and filter to it, which read
\* it; it pushes onto its own errors array only.
existingAttendanceAfter_PushesCandidate(existingAttendance, date) ==
    IF existingAttendance = <<>> THEN existingAttendance
    ELSE Append(existingAttendance, [existingAttendance[1] EXCEPT !.date = date])

existingAttendanceAfter(existingAttendance, date) == existingAttendance

\* A validator that returns at its first failed check.
validateAttendanceMarkable_FirstFailureOnly(studentId, date, daysPerWeekAllowed, internshipStartDate, internshipEndDate, holidays, existingAttendance) ==
    LET all == rangePush(date, internshipStartDate, internshipEndDate)
                \o workingDayPush(date, holidays)
                \o duplicatePush(date, existingAttendance)
                \o weeklyPush(date, daysPerWeekAllowed, holidays,
                              existingAttendance)
        errors == IF all = <<>> THEN <<>> ELSE <<all[1]>>
    IN  [isValid |-> errors = <<>>, errors |-> errors]

\* The four checks run one after the other, each pushing at most one reason
\* onto `errors`; the array returned is what they pushed, in that order.
validateAttendanceMarkable(studentId, date, daysPerWeekAllowed, internshipStartDate, internshipEndDate, holidays, existingAttendance) ==
    LET errors == rangePush(date, internshipStartDate, internshipEndDate)
                    \o workingDayPush(date, holidays)
                    \o duplicatePush(date, existingAttendance)
                    \o weeklyPush(date, daysPerWeekAllowed, holidays,
                                  existingAttendance)
    IN  [isValid |-> Len(errors) = 0, errors |-> errors]

(***************************************************************************)
(* SpecValidate: validateAttendanceMarkable on drawn inputs.               *)
(***************************************************************************)
NoValidation == [called |-> FALSE, isValid |-> FALSE, errors |-> <<>>]
NoCall == [fn |-> "none"]

\* { date, status } of an AttendanceRecord, as the validator reads it.
ExistingRecords == [date : Dates, status : Statuses]
RecordKey(a) == 2 * a.date + (IF a.status = "absent" THEN 1 ELSE 0)
\* The validator reads the array through some() and filter().length only,
\* so one ordering of each multiset of records is drawn.
ExistingLists ==
    {s \in UNION {[1..n -> ExistingRecords] : n \in 0..MaxExisting} :
        \A i \in 1..(Len(s) - 1) : RecordKey(s[i]) <= RecordKey(s[i + 1])}
\* The holiday lists drawn: no holiday, or one holiday on any date.
HolidayLists == {{}} \cup {{h} : h \in Dates}
\* models.ts: 2, 3, 4, or 5; the quotas an array of MaxExisting can reach.
QuotaChoices == {2, 3}
\* internshipStartDate <= internshipEndDate, both near the ends of Dates.
StartChoices == {0, 1}
EndChoices == {NumDays - 2, NumDays - 1}

ValidateInputs ==
    [studentId : {"s1"},
     date : Dates,
     daysPerWeekAllowed : QuotaChoices,
     internshipStartDate : StartChoices,
     internshipEndDate : EndChoices,
     holidays : HolidayLists,
     existingAttendance : ExistingLists]

InitValidate ==
    /\ tz \in TZOffsets
    /\ scheduler = NewScheduler
    /\ input \in ValidateInputs
    /\ validation = NoValidation
    /\ call = NoCall
    /\ students = <<>>
    /\ attendance = <<>>
    /\ storedHolidays = <<>>
    /\ response = [status |-> 0]

CallValidate ==
    /\ ~validation.called
    /\ \E v \in {validateAttendanceMarkable(
                    input.studentId, input.date, input.daysPerWeekAllowed,
                    input.internshipStartDate, input.internshipEndDate,
                    input.holidays, input.existingAttendance)} :
           validation' = [called |-> TRUE, isValid |-> v.isValid,
                          errors |-> v.errors]
    /\ input' = [input EXCEPT !.existingAttendance =
                                  existingAttendanceAfter(@, input.date)]
    /\ UNCHANGED <<scheduler, tz, call, students, attendance, storedHolidays, response>>

NextValidate == CallValidate

SpecValidate == InitValidate /\ [][NextValidate]_vars

(***************************************************************************)
(* SpecStatus: validateAttendanceMarkable on the inputs of SpecValidate    *)
(* with no holiday or a holiday on one of the first days of week one.      *)
(***************************************************************************)
StatusInputs ==
    {i \in ValidateInputs :
        i.holidays \in {{}} \cup {{h} : h \in StartChoices}}

InitStatus ==
    /\ tz \in TZOffsets
    /\ scheduler = NewScheduler
    /\ input \in StatusInputs
    /\ validation = NoValidation
    /\ call = NoCall
    /\ students = <<>>
    /\ attendance = <<>>
    /\ storedHolidays = <<>>
    /\ response = [status |-> 0]

SpecStatus == InitStatus /\ [][NextValidate]_vars

(***************************************************************************)
(* DataStore (attendance map) and handleMarkAttendance.                    *)
(***************************************************************************)
NoInput == [studentId |-> "none"]
NoAttendance == [studentId |-> "none", date |-> -1, status |-> "none"]
NoResponse == [status |-> 0, error |-> "", message |-> "",
               attendance |-> NoAttendance]

\* DataStore.getAttendance: the student's array, or [] when the map has none.
getAttendance(store, studentEmail) ==
    IF studentEmail \in DOMAIN store THEN store[studentEmail] ELSE <<>>

\* DataStore.addAttendance: push onto the student's array and set it back.
addAttendance(store, record) ==
    LET existing == getAttendance(store, record.studentEmail)
        pushed == Append(existing, record)
    IN  [e \in DOMAIN store \cup {record.studentEmail} |->
            IF e = record.studentEmail THEN pushed ELSE store[e]]

\* dataStore.getAllStudents().find((s) => s.id === studentId)
StudentIds == {students[i].id : i \in 1..Len(students)}
FindStudent(studentId) ==
    LET i == CHOOSE k \in 1..Len(students) :
                 /\ students[k].id = studentId
                 /\ \A j \in 1..(k - 1) : students[j].id # studentId
    IN  students[i]

\* Requests: `parses` tells whether markAttendanceSchema accepts the body
\* (a non-empty studentId, a YYYY-MM-DD date, a status of the enum); req.user
\* is absent when the request carries no authenticated user.
NoUser == "none"
FacultyUsers == {"f1@college.edu"}

\* The { date, status } view of a stored record the validator reads.
AsExisting(records) ==
    [i \in 1..Len(records) |->
        [date |-> records[i].date, status |-> records[i].status]]

\* A handler that saves whatever the validator returned.
respondAndSave_IgnoresValidation(student, studentId, date, status, user, v) ==
    /\ attendance' = addAttendance(attendance,
                                   [studentEmail |-> student.email,
                                    date |-> date, status |-> status,
                                    markedBy |-> user])
    /\ response' = [NoResponse EXCEPT
                       !.status = 200,
                       !.message = "Attendance marked successfully",
                       !.attendance = [studentId |-> studentId,
                                       date |-> date, status |-> status]]

\* handleMarkAttendance from the validation result on (part_003 396-430): a
\* 400 carrying errors[0], or the record saved and echoed in a 200.
\* The record's id (att-<clock>) and remarks are left out.
respondAndSave(student, studentId, date, status, user, v) ==
    IF ~v.isValid
    THEN /\ response' = [NoResponse EXCEPT
                            !.status = 400,
                            !.error = "Cannot mark attendance",
                            !.message = v.errors[1]]
         /\ UNCHANGED attendance
    ELSE /\ attendance' = addAttendance(attendance,
                                        [studentEmail |-> student.email,
                                         date |-> date, status |-> status,
                                         markedBy |-> user])
         /\ response' = [NoResponse EXCEPT
                            !.status = 200,
                            !.message = "Attendance marked successfully",
                            !.attendance = [studentId |-> studentId,
                                            date |-> date, status |-> status]]

\* The store the handler reads at line 383.  The handler is synchronous:
\* the read, the validation and addAttendance run without a suspension
\* point, so the store read is the store addAttendance pushes onto.  The
\* variant reads the store as it was when the request arrived, as a handler
\* that awaited between the read and the save could.
storeReadByHandler_AtArrival == input.storeAtArrival

storeReadByHandler == attendance

\* `validation` holds the handler's local of that name: the result of its
\* call of the validator, or NoValidation when it returned before the call.
\* The handler has no await: a request runs from parse to response as one
\* step.  Its catch-all 500 is not reached for the requests drawn.
handleMarkAttendance(parses, studentId, date, status, user) ==
    IF ~parses
    THEN \* markAttendanceSchema.parse throws a ZodError
         /\ response' = [NoResponse EXCEPT !.status = 400,
                                           !.error = "Validation error"]
         /\ validation' = NoValidation
         /\ UNCHANGED attendance
    ELSE IF user = NoUser
    THEN /\ response' = [NoResponse EXCEPT !.status = 401,
                                           !.error = "Not authenticated"]
         /\ validation' = NoValidation
         /\ UNCHANGED attendance
    ELSE IF studentId \notin StudentIds
    THEN /\ response' = [NoResponse EXCEPT !.status = 404,
                                           !.error = "Student not found"]
         /\ validation' = NoValidation
         /\ UNCHANGED attendance
    ELSE LET student == FindStudent(studentId)
             existingAttendance ==
                 AsExisting(getAttendance(storeReadByHandler, student.email))
             holidays == {}   \* TODO: Load from dataStore.getHolidays()
         IN  \E v \in {validateAttendanceMarkable(
                          studentId, date, student.daysPerWeekAllowed,
                          student.internshipStartDate,
                          student.internshipEndDate,
                          holidays, existingAttendance)} :
                /\ validation' = [called |-> TRUE, isValid |-> v.isValid,
                                  errors |-> v.errors]
                /\ respondAndSave(student, studentId, date, status, user, v)

\* Request bodies and users drawn: one body the schema rejects, one
\* well-formed request without a user, one for a student id the store does
\* not hold, and every (student, date, status) for the students it holds.
MarkRequests ==
    {[parses |-> FALSE, studentId |-> "s1", date |-> 0,
      status |-> "present", user |-> "f1@college.edu"],
     [parses |-> TRUE, studentId |-> "s1", date |-> 0,
      status |-> "present", user |-> NoUser],
     [parses |-> TRUE, studentId |-> "s9", date |-> 0,
      status |-> "present", user |-> "f1@college.edu"]}
    \cup [parses : {TRUE}, studentId : {"s1", "s2"}, date : Dates,
          status : Statuses, user : FacultyUsers]

\* The guards of auth.ts for a request of a faculty user: TRUE when the
\* guard calls next().  ensureFacultyAccess defers the assignment check to
\* ensureFacultyAssigned, which is a placeholder that calls next().
ensureFacultyAccess(user) == user # NoUser

ensureFacultyAssigned(user, studentId) == TRUE

\* The router of part_003 registers the handler with no guard of its own;
\* the guards of auth.ts, where they stand in front of it, let the request
\* of every authenticated faculty user through.
MarkAttendance ==
    \E req \in MarkRequests :
        /\ req.user # NoUser =>
               /\ ensureFacultyAccess(req.user)
               /\ ensureFacultyAssigned(req.user, req.studentId)
        /\ handleMarkAttendance(req.parses, req.studentId, req.date,
                                req.status, req.user)
        /\ UNCHANGED <<scheduler, tz, input, call, students, storedHolidays>>

\* The students the store holds when faculty start marking: s1 from the
\* Wednesday of week one to the last date, s2 for that Wednesday only.  s1
\* is assigned to the faculty member who makes the requests, s2 to another.
\* customWorkingDays is the optional field of the Student record: {} when
\* it is not set; s2 is permitted Mondays only.
StudentTables ==
    {<<[id |-> "s1", email |-> "s1@college.edu",
        daysPerWeekAllowed |-> 2, facultyEmail |-> "f1@college.edu",
        customWorkingDays |-> {},
        internshipStartDate |-> 2, internshipEndDate |-> NumDays - 1],
       [id |-> "s2", email |-> "s2@college.edu",
        daysPerWeekAllowed |-> 3, facultyEmail |-> "f2@college.edu",
        customWorkingDays |-> {"Monday"},
        internshipStartDate |-> 2, internshipEndDate |-> 2]>>}

InitMark ==
    /\ tz \in TZOffsets
    /\ scheduler = NewScheduler
    /\ input = NoInput
    /\ validation = NoValidation
    /\ call = NoCall
    /\ students \in StudentTables
    /\ attendance = <<>>
    /\ storedHolidays = <<>>
    /\ response = NoResponse

NextMark == MarkAttendance

SpecMark == InitMark /\ [][NextMark]_vars

(***************************************************************************)
(* DataStore holidays, the admin holiday handlers (routes/admin.ts, kept   *)
(* in src/unnamed/part_004) and the two syncs from Google Sheets.          *)
(***************************************************************************)
\* Longest attendance array a form sync may grow a student's records to.
MaxStored == 2

\* DataStore.addHoliday: this.holidays.set(holiday.id, holiday).
addHoliday(store, holiday) ==
    [i \in DOMAIN store \cup {holiday.id} |->
        IF i = holiday.id THEN holiday ELSE store[i]]

\* DataStore.removeHoliday: this.holidays.delete(id).
removeHoliday(store, id) == [i \in DOMAIN store \ {id} |-> store[i]]

\* DataStore.getHolidayDates, as the set of its elements.
getHolidayDates(store) == {store[i].date : i \in DOMAIN store}

\* `hol-${Date.now()}`: the clock has moved on since the holidays the store
\* holds were created, so the id is one the store does not hold.  One id:
\* the store holds at most one holiday at a time.
HolidayIds == {"hol-1"}

\* What fetchAllSheetsData returns: the student rows and the rows of the
\* Attendance tab (date, student email, status; no markedBy).  The sheet
\* holds one student, from Wednesday to Friday of week one, and at most one
\* attendance row, for that Wednesday.  The ids a sync gives the students
\* (`student-<clock>-<random>`) are modelled by the id a client reads back
\* after the sync.
SheetStudents ==
    <<[id |-> "s1", email |-> "s1@college.edu", daysPerWeekAllowed |-> 2,
       facultyEmail |-> "f1@college.edu", customWorkingDays |-> {},
       internshipStartDate |-> 2, internshipEndDate |-> 4]>>
SheetRows ==
    [studentEmail : {"s1@college.edu"}, date : {2}, status : {"present"},
     markedBy : {NoUser}]
SheetsData ==
    [students : {SheetStudents},
     attendance : {<<>>} \cup {<<row>> : row \in SheetRows}]

\* The holidays an administrator creates: on the dates of the student's
\* internship.
HolidayRequestDates ==
    {d \in Dates : /\ SheetStudents[1].internshipStartDate <= d
                   /\ d <= SheetStudents[1].internshipEndDate}

\* name, description, type and createdAt of the holiday are left out.
handleCreateHoliday(parses, date) ==
    IF ~parses
    THEN \* createHolidaySchema.parse throws a ZodError
         /\ response' = [NoResponse EXCEPT !.status = 400,
                                           !.error = "Validation error"]
         /\ UNCHANGED storedHolidays
    ELSE \E id \in HolidayIds \ DOMAIN storedHolidays :
            /\ storedHolidays' =
                   addHoliday(storedHolidays, [id |-> id, date |-> date])
            /\ response' = [NoResponse EXCEPT
                               !.status = 201,
                               !.message = "Holiday created successfully"]

CreateHoliday ==
    /\ \E parses \in BOOLEAN, date \in HolidayRequestDates :
           handleCreateHoliday(parses, date)
    /\ UNCHANGED <<scheduler, tz, input, validation, call, students, attendance>>

handleDeleteHoliday(holidayId) ==
    /\ storedHolidays' = removeHoliday(storedHolidays, holidayId)
    /\ response' = [NoResponse EXCEPT
                       !.status = 200,
                       !.message = "Holiday deleted successfully"]

DeleteHoliday ==
    /\ \E holidayId \in HolidayIds : handleDeleteHoliday(holidayId)
    /\ UNCHANGED <<scheduler, tz, input, validation, call, students, attendance>>

\* for (const att of sheetsData.attendance) dataStore.addAttendance(att)
RECURSIVE AddAllAttendance(_, _)
AddAllAttendance(store, rows) ==
    IF rows = <<>>
    THEN store
    ELSE AddAllAttendance(addAttendance(store, Head(rows)), Tail(rows))

\* DataStore.clearAll, on the maps modelled: students and attendance are
\* emptied, holidays are not touched.
clearAllStudents == <<>>
clearAllAttendance == <<>>

\* A sync that cleared the store before it awaited the fetch.
runSyncNow_ClearsBeforeFetch(fetched, sheetsData) ==
    IF ~fetched
    THEN /\ call' = [fn |-> "runSyncNow",
                     value |-> [success |-> FALSE, studentsCount |-> 0,
                                attendanceCount |-> 0]]
         /\ students' = clearAllStudents
         /\ attendance' = clearAllAttendance
    ELSE /\ students' = clearAllStudents \o sheetsData.students
         /\ attendance' = AddAllAttendance(clearAllAttendance,
                                           sheetsData.attendance)
         /\ call' = [fn |-> "runSyncNow",
                     value |-> [success |-> TRUE,
                                studentsCount |-> Len(sheetsData.students),
                                attendanceCount |->
                                    Len(sheetsData.attendance)]]

\* SyncScheduler.runSyncNow from the resolution of its one await on: the
\* fetch threw and the store is left alone, or the store is cleared and
\* filled from the sheet in one synchronous run.  The SyncResult goes to
\* `call`; the counters are kept by runSyncNowBegins and runSyncNowSettles;
\* duration, tasks and assignments are left out.
runSyncNow(fetched, sheetsData) ==
    IF ~fetched
    THEN /\ call' = [fn |-> "runSyncNow",
                     value |-> [success |-> FALSE, studentsCount |-> 0,
                                attendanceCount |-> 0]]
         /\ UNCHANGED <<students, attendance>>
    ELSE /\ students' = clearAllStudents \o sheetsData.students
         /\ attendance' = AddAllAttendance(clearAllAttendance,
                                           sheetsData.attendance)
         /\ call' = [fn |-> "runSyncNow",
                     value |-> [success |-> TRUE,
                                studentsCount |-> Len(sheetsData.students),
                                attendanceCount |->
                                    Len(sheetsData.attendance)]]

\* The scheduler from the entry of runSyncNow to its await (lines 90-97):
\* the sync is counted and suspends on fetchAllSheetsData.
runSyncNowBegins(s) ==
    [s EXCEPT !.stats.totalSyncs = @ + 1, !.awaiting = @ + 1]

\* The scheduler from the settling of the await to the return: lines
\* 118-121 after a fetch that resolved, the catch block (lines 140-143)
\* after one that rejected.  new Date() is the ordinal of the settling.
runSyncNowSettles(s, fetched) ==
    LET settled == [s EXCEPT !.awaiting = @ - 1]
        instant == s.stats.successfulSyncs + s.stats.failedSyncs + 1
    IN  IF fetched
        THEN [settled EXCEPT !.stats.successfulSyncs = @ + 1,
                             !.lastSyncTime = instant]
        ELSE [settled EXCEPT !.stats.failedSyncs = @ + 1]

\* Syncs are started while fewer than MaxSyncs have been.
MaxSyncs == 3

\* A runSyncNow whose fetch settles before any other handler runs.
RunSyncNow ==
    /\ scheduler.stats.totalSyncs < MaxSyncs
    /\ \E fetched \in BOOLEAN, sheetsData \in SheetsData :
           /\ runSyncNow(fetched, sheetsData)
           /\ scheduler' = runSyncNowSettles(runSyncNowBegins(scheduler),
                                             fetched)
    /\ UNCHANGED <<tz, input, validation, storedHolidays, response>>

\* handleSyncGoogleForm from the resolution of its await on: students (and
\* faculty) are cleared and set again from the rows that validate, which
\* the rows of SheetStudents do; the attendance rows are pushed onto the
\* arrays the store already holds.  The counts of the response are left out.
handleSyncGoogleForm(parses, fetched, sheetsData) ==
    IF ~parses
    THEN /\ response' = [NoResponse EXCEPT !.status = 400,
                                           !.error = "Validation error"]
         /\ UNCHANGED <<students, attendance>>
    ELSE IF ~fetched
    THEN /\ response' = [NoResponse EXCEPT
                            !.status = 500,
                            !.error = "Failed to sync Google Form"]
         /\ UNCHANGED <<students, attendance>>
    ELSE /\ students' = sheetsData.students
         /\ attendance' = AddAllAttendance(attendance, sheetsData.attendance)
         /\ response' = [NoResponse EXCEPT !.status = 200]

\* A form sync is drawn while no array would outgrow MaxStored.
SyncGoogleForm ==
    /\ \E parses \in BOOLEAN, fetched \in BOOLEAN, sheetsData \in SheetsData :
           /\ \A e \in DOMAIN attendance :
                  Len(attendance[e]) + Len(sheetsData.attendance) <= MaxStored
           /\ handleSyncGoogleForm(parses, fetched, sheetsData)
    /\ UNCHANGED <<scheduler, tz, input, validation, call, storedHolidays>>

(***************************************************************************)
(* SpecServer: the store from its construction on, under mark-attendance   *)
(* requests, holiday administration and syncs.                             *)
(***************************************************************************)
InitServer ==
    /\ tz \in TZOffsets
    /\ scheduler = NewScheduler
    /\ input = NoInput
    /\ validation = NoValidation
    /\ call = NoCall
    /\ students = <<>>
    /\ attendance = <<>>
    /\ storedHolidays = <<>>
    /\ response = NoResponse

NextServer ==
    \/ MarkAttendance
    \/ CreateHoliday
    \/ DeleteHoliday
    \/ RunSyncNow
    \/ SyncGoogleForm

SpecServer == InitServer /\ [][NextServer]_vars

(***************************************************************************)
(* SpecScheduler: one SyncScheduler (syncScheduler.ts) under calls of      *)
(* startAutoSync and stopAutoSync, the firing of its interval timers, and  *)
(* the settling of the fetches its syncs wait for.                         *)
(***************************************************************************)
\* setInterval is called while fewer than MaxTimers timers are alive.
MaxTimers == 2
TimerIds == 1..MaxTimers

\* The handle setInterval returns: a timer not alive so far.
setInterval(s) == CHOOSE id \in TimerIds : id \notin s.timers

startAutoSync_Unguarded(s) ==
    LET begun == runSyncNowBegins(s)
        id == setInterval(begun)
    IN  [begun EXCEPT !.intervalId = id, !.timers = @ \cup {id},
                      !.isRunning = TRUE]

startAutoSync(s) ==
    IF s.isRunning
    THEN s
    ELSE LET begun == runSyncNowBegins(s)   \* the initial sync, not awaited
             id == setInterval(begun)
         IN  [begun EXCEPT !.intervalId = id, !.timers = @ \cup {id},
                           !.isRunning = TRUE]

stopAutoSync_LeavesTimer(s) ==
    IF s.intervalId # 0
    THEN [s EXCEPT !.intervalId = 0, !.isRunning = FALSE]
    ELSE s

stopAutoSync(s) ==
    IF s.intervalId # 0
    THEN [s EXCEPT !.timers = @ \ {s.intervalId},   \* clearInterval
                   !.intervalId = 0, !.isRunning = FALSE]
    ELSE s

isAutoSyncRunning(s) == s.isRunning

StartAutoSync ==
    /\ scheduler.stats.totalSyncs < MaxSyncs
    /\ Cardinality(scheduler.timers) < MaxTimers
    /\ scheduler' = startAutoSync(scheduler)
    /\ UNCHANGED <<tz, input, validation, call, students, attendance,
                   storedHolidays, response>>

StopAutoSync ==
    /\ scheduler' = stopAutoSync(scheduler)
    /\ UNCHANGED <<tz, input, validation, call, students, attendance,
                   storedHolidays, response>>

\* The callback of an interval timer that is alive: runSyncNow is called
\* and runs to its await.
TimerFires ==
    /\ scheduler.timers # {}
    /\ scheduler.stats.totalSyncs < MaxSyncs
    /\ scheduler' = runSyncNowBegins(scheduler)
    /\ UNCHANGED <<tz, input, validation, call, students, attendance,
                   storedHolidays, response>>

\* The fetch of a suspended runSyncNow settles and the sync runs to its
\* return.
SyncSettlesWith(fetched, sheetsData) ==
    /\ scheduler.awaiting > 0
    /\ runSyncNow(fetched, sheetsData)
    /\ scheduler' = runSyncNowSettles(scheduler, fetched)
    /\ UNCHANGED <<tz, input, validation, storedHolidays, response>>

SyncSettles ==
    \E fetched \in BOOLEAN, sheetsData \in SheetsData :
        SyncSettlesWith(fetched, sheetsData)

InitScheduler == InitServer

NextScheduler == StartAutoSync \/ StopAutoSync \/ TimerFires \/ SyncSettles

SpecScheduler == InitScheduler /\ [][NextScheduler]_vars

(***************************************************************************)
(* SpecPreflight: handleValidateAttendance (part_003) over a store that    *)
(* holds students, attendance rows and holidays.                           *)
(***************************************************************************)
\* The request is kept in `input`, the validator's result in `validation`.
\* `reason` is errors[0], or "" for undefined.  The strings date and
\* internshipStartDate/EndDate are compared as strings: for YYYY-MM-DD
\* strings that is the order of the days.
handleValidateAttendance(parses, studentId, date) ==
    IF ~parses
    THEN \* validateAttendanceSchema.parse throws a ZodError
         /\ response' = [NoResponse EXCEPT !.status = 400,
                                           !.error = "Validation error"]
         /\ validation' = NoValidation
         /\ attendance' = attendance
    ELSE IF studentId \notin StudentIds
    THEN /\ response' = [NoResponse EXCEPT !.status = 404,
                                           !.error = "Student not found"]
         /\ validation' = NoValidation
         /\ attendance' = attendance
    ELSE LET student == FindStudent(studentId)
             existingAttendance ==
                 AsExisting(getAttendance(attendance, student.email))
             holidays == {}   \* TODO: Load from dataStore.getHolidays()
         IN  \E v \in {validateAttendanceMarkable(
                          studentId, date, student.daysPerWeekAllowed,
                          student.internshipStartDate,
                          student.internshipEndDate,
                          holidays, existingAttendance)} :
                /\ validation' = [called |-> TRUE, isValid |-> v.isValid,
                                  errors |-> v.errors]
                \* getAttendance hands out the store's own array when the
                \* student has one, and a fresh [] otherwise.
                /\ attendance' =
                      IF student.email \in DOMAIN attendance
                      THEN [attendance EXCEPT ![student.email] =
                                existingAttendanceAfter(@, date)]
                      ELSE attendance
                /\ response' =
                      [status |-> 200,
                       isValid |-> v.isValid,
                       reason |-> IF Len(v.errors) > 0 THEN v.errors[1]
                                  ELSE "",
                       details |->
                         [isWeekend |-> GetDay(NewDate(date)) = 0
                                            \/ GetDay(NewDate(date)) = 6,
                          isHoliday |-> date \in holidays,
                          exceedsWeeklyLimit |-> FALSE,
                          outsideInternshipDates |->
                              date < student.internshipStartDate
                                  \/ date > student.internshipEndDate]]

ValidateRequests ==
    [parses : BOOLEAN, studentId : {"s1", "s9"}, date : Dates]

\* One request is drawn per run.
ValidateAttendance ==
    \E req \in ValidateRequests :
        /\ input = NoInput
        /\ handleValidateAttendance(req.parses, req.studentId, req.date)
        /\ input' = [studentId |-> req.studentId, date |-> req.date]
        /\ UNCHANGED <<scheduler, tz, call, students, storedHolidays>>

\* The rows a student has in the store, as a sync from the sheet left them.
StoredRows(studentEmail, existing) ==
    [i \in 1..Len(existing) |->
        [studentEmail |-> studentEmail, date |-> existing[i].date,
         status |-> existing[i].status, markedBy |-> NoUser]]

\* The store when the request arrives: the students of StudentTables, any
\* rows for s1, and no holiday or one.
InitPreflight ==
    /\ tz \in TZOffsets
    /\ scheduler = NewScheduler
    /\ input = NoInput
    /\ validation = NoValidation
    /\ call = NoCall
    /\ students \in StudentTables
    /\ \E existing \in ExistingLists :
           attendance = IF existing = <<>> THEN <<>>
                        ELSE [e \in {"s1@college.edu"} |->
                                 StoredRows("s1@college.edu", existing)]
    /\ \E h \in HolidayLists :
           storedHolidays = [id \in {"hol-1" : d \in h} |->
                                [id |-> id, date |-> CHOOSE d \in h : TRUE]]
    /\ response = NoResponse

NextPreflight == ValidateAttendance

SpecPreflight == InitPreflight /\ [][NextPreflight]_vars

(***************************************************************************)
(* SpecRace: two mark requests for the same student and date, both         *)
(* received before either handler runs; the handlers run in either order.  *)
(***************************************************************************)
RaceUsers == {"f1@college.edu", "f2@college.edu"}

\* The two requests, and the store as it was when they arrived.
RaceInputs(store) ==
    [studentId : {"s1", "s2"}, date : Dates,
     requests : [1..2 -> [status : Statuses, user : RaceUsers]],
     storeAtArrival : {store}]

\* The store at arrival: empty, or one row of s1 on the first day of the
\* internship.
RaceStores ==
    {<<>>, [e \in {"s1@college.edu"} |->
               StoredRows("s1@college.edu",
                          <<[date |-> 2, status |-> "present"]>>)]}

\* call.value[i] is the status of the response to request i, 0 before it.
InitRace ==
    /\ tz \in TZOffsets
    /\ scheduler = NewScheduler
    /\ attendance \in RaceStores
    /\ input \in RaceInputs(attendance)
    /\ validation = NoValidation
    /\ call = [fn |-> "handleMarkAttendance", value |-> <<0, 0>>]
    /\ students \in StudentTables
    /\ storedHolidays = <<>>
    /\ response = NoResponse

HandleRequest(i) ==
    /\ call.value[i] = 0
    /\ handleMarkAttendance(TRUE, input.studentId, input.date,
                            input.requests[i].status, input.requests[i].user)
    /\ call' = [call EXCEPT !.value[i] = response'.status]
    /\ UNCHANGED <<scheduler, tz, input, students, storedHolidays>>

NextRace == \E i \in 1..2 : HandleRequest(i)

SpecRace == InitRace /\ [][NextRace]_vars

(***************************************************************************)
(* SpecMalformed: validateAttendanceMarkable on date strings that          *)
(* new Date() may not parse.                                               *)
(*                                                                         *)
(* Here a date string is a record: `parses` tells whether new Date() of it *)
(* is a valid Date, `day` is the day number when it is (and 0, unread,     *)
(* when it is not).  new Date() of an unparsable string is Invalid Date:   *)
(* getTime() and getDay() are NaN, every comparison with NaN is false, and *)
(* toISOString() throws a RangeError.                                      *)
(***************************************************************************)
Unparsable == [parses |-> FALSE, day |-> 0]
Parsed(d) == [parses |-> TRUE, day |-> d]

\* attendance.ts 52-56 with NaN: `checkDate >= start && checkDate <= end` is
\* false as soon as one of the three times is NaN.
isWithinInternshipPeriodOfStrings(date, startDate, endDate) ==
    /\ date.parses /\ startDate.parses /\ endDate.parses
    /\ isWithinInternshipPeriod(date.day, startDate.day, endDate.day)

\* validateAttendanceMarkable on such strings.  With an unparsable `date`
\* the range check pushes its reason, isWeekend is false (NaN === 0), and
\* getWorkingDaysInWeek throws at monday.toISOString() (line 104): the call
\* ends in a RangeError and returns no result.  With a parsable `date` the
\* checks after the range check never read the policy dates.
validateAttendanceMarkableOfStrings(studentId, date, daysPerWeekAllowed, internshipStartDate, internshipEndDate, holidays, existingAttendance) ==
    IF ~date.parses
    THEN [threw |-> TRUE, isValid |-> FALSE, errors |-> <<>>]
    ELSE LET errors ==
                 (IF ~isWithinInternshipPeriodOfStrings(
                         date, internshipStartDate, internshipEndDate)
                  THEN <<RangeReason>>
                  ELSE <<>>)
                    \o workingDayPush(date.day, holidays)
                    \o duplicatePush(date.day, existingAttendance)
                    \o weeklyPush(date.day, daysPerWeekAllowed, holidays,
                                  existingAttendance)
         IN  [threw |-> FALSE, isValid |-> Len(errors) = 0,
              errors |-> errors]

\* The strings drawn: every date, parsable or not; a start and an end date
\* of StartChoices and EndChoices or an unparsable one; at most one
\* existing record.
MalformedInputs ==
    [studentId : {"s1"},
     date : {Parsed(d) : d \in Dates} \cup {Unparsable},
     daysPerWeekAllowed : QuotaChoices,
     internshipStartDate : {Parsed(d) : d \in StartChoices} \cup {Unparsable},
     internshipEndDate : {Parsed(d) : d \in EndChoices} \cup {Unparsable},
     holidays : {{}},
     existingAttendance : {s \in ExistingLists : Len(s) <= 1}]

InitMalformed ==
    /\ tz \in TZOffsets
    /\ scheduler = NewScheduler
    /\ input \in MalformedInputs
    /\ validation = NoValidation
    /\ call = NoCall
    /\ students = <<>>
    /\ attendance = <<>>
    /\ storedHolidays = <<>>
    /\ response = [status |-> 0]

CallValidateOfStrings ==
    /\ call.fn = "none"
    /\ call' = [fn |-> "validateAttendanceMarkable",
                value |-> validateAttendanceMarkableOfStrings(
                              input.studentId, input.date,
                              input.daysPerWeekAllowed,
                              input.internshipStartDate,
                              input.internshipEndDate,
                              input.holidays, input.existingAttendance)]
    /\ UNCHANGED <<scheduler, tz, input, validation, students, attendance,
                   storedHolidays, response>>

NextMalformed == CallValidateOfStrings

SpecMalformed == InitMalformed /\ [][NextMalformed]_vars

(***************************************************************************)
(* SpecCount: countAttendance on drawn inputs.                             *)
(***************************************************************************)
\* A count that stops before the end date.
recordInRange_EndExclusive(recordTime, startTime, endTime) ==
    recordTime >= startTime /\ recordTime < endTime

\* attendance.ts 127: recordTime >= startTime && recordTime <= endTime.
recordInRange(recordTime, startTime, endTime) ==
    recordTime >= startTime /\ recordTime <= endTime

\* The for loop of countAttendance over the records left, with the two
\* counters as they stand.
RECURSIVE CountLoop(_, _, _, _, _)
CountLoop(records, startTime, endTime, present, absent) ==
    IF records = <<>>
    THEN [present |-> present, absent |-> absent]
    ELSE LET record == Head(records)
             recordTime == GetTime(NewDate(record.date))
         IN  IF recordInRange(recordTime, startTime, endTime)
             THEN IF record.status = "present"
                  THEN CountLoop(Tail(records), startTime, endTime,
                                 present + 1, absent)
                  ELSE CountLoop(Tail(records), startTime, endTime,
                                 present, absent + 1)
             ELSE CountLoop(Tail(records), startTime, endTime,
                            present, absent)

countAttendance(attendanceRecords, startDate, endDate) ==
    LET startTime == GetTime(NewDate(startDate))
        endTime == GetTime(NewDate(endDate))
        counted == CountLoop(attendanceRecords, startTime, endTime, 0, 0)
    IN  [present |-> counted.present,
         absent |-> counted.absent,
         total |-> counted.present + counted.absent]

CountInputs ==
    [attendanceRecords : ExistingLists, startDate : Dates, endDate : Dates]

InitCount ==
    /\ tz \in TZOffsets
    /\ scheduler = NewScheduler
    /\ input \in CountInputs
    /\ validation = NoValidation
    /\ call = NoCall
    /\ students = <<>>
    /\ attendance = <<>>
    /\ storedHolidays = <<>>
    /\ response = [status |-> 0]

CallCountAttendance ==
    /\ call.fn = "none"
    /\ call' = [fn |-> "countAttendance",
                value |-> countAttendance(input.attendanceRecords,
                                          input.startDate, input.endDate)]
    /\ UNCHANGED <<scheduler, tz, input, validation, students, attendance,
                   storedHolidays, response>>

NextCount == CallCountAttendance

SpecCount == InitCount /\ [][NextCount]_vars

(***************************************************************************)
(* SpecPercentage: calculateAttendancePercentage on drawn arguments, and   *)
(* on the arguments handleGetDashboard (routes/student.ts) passes.         *)
(***************************************************************************)
\* The doubles of line 153.  A positive double is significand * 2^(e - 52)
\* with a significand of 53 bits, kept as five limbs, most significant
\* first: the leading 1 and four limbs of LimbBits bits.  Zero is the
\* significand 0.  Division and multiplication round to nearest, ties to
\* the even significand.
LimbBits == 13
LimbBase == 2 ^ LimbBits
DoubleZero == [limbs |-> <<0, 0, 0, 0, 0>>, e |-> 0]

\* Limbs with carries passed upward from limb i; the top limb keeps what
\* reaches it.
RECURSIVE Carry(_, _, _)
Carry(limbs, i, c) ==
    IF i = 1
    THEN [limbs EXCEPT ![1] = @ + c]
    ELSE Carry([limbs EXCEPT ![i] = (limbs[i] + c) % LimbBase], i - 1,
               (limbs[i] + c) \div LimbBase)

\* a * 2^i and b * 2^j with the same quotient and b <= a < 2b; e = j - i.
RECURSIVE ScaleNumerator(_, _, _)
ScaleNumerator(a, b, e) ==
    IF a < b THEN ScaleNumerator(2 * a, b, e - 1) ELSE [a |-> a, b |-> b, e |-> e]
RECURSIVE ScaleDenominator(_, _, _)
ScaleDenominator(a, b, e) ==
    IF a >= 2 * b THEN ScaleDenominator(a, 2 * b, e + 1)
    ELSE [a |-> a, b |-> b, e |-> e]

\* Long division in base LimbBase: the limbs after the leading 1, and the
\* remainder left behind them.
RECURSIVE QuotientLimbs(_, _, _)
QuotientLimbs(limbs, r, b) ==
    IF Len(limbs) = 5
    THEN [limbs |-> limbs, r |-> r]
    ELSE QuotientLimbs(Append(limbs, (r * LimbBase) \div b),
                       (r * LimbBase) % b, b)

\* presentDays / totalWorkingDays for totalWorkingDays > 0.
DoubleDivide(presentDays, totalWorkingDays) ==
    IF presentDays = 0
    THEN DoubleZero
    ELSE LET n == ScaleNumerator(presentDays, totalWorkingDays, 0)
             s == ScaleDenominator(n.a, n.b, n.e)
             q == QuotientLimbs(<<1>>, s.a - s.b, s.b)
             up == \/ 2 * q.r > s.b
                   \/ 2 * q.r = s.b /\ q.limbs[5] % 2 = 1
             rounded == IF up THEN Carry(q.limbs, 5, 1) ELSE q.limbs
         IN  IF rounded[1] = 2
             THEN [limbs |-> <<1, 0, 0, 0, 0>>, e |-> s.e + 1]
             ELSE [limbs |-> rounded, e |-> s.e]

\* x * 100: the exact product has a top limb of 100..199, seven or eight
\* bits, so six or seven low bits are rounded away to leave 53.  The limbs
\* returned hold the rounded product itself, its low bits zero.
DoubleTimes100(x) ==
    LET product == Carry([i \in 1..5 |-> 100 * x.limbs[i]], 5, 0)
        drop == IF product[1] < 2 ^ 7 THEN 6 ELSE 7
        low == product[5] % (2 ^ drop)
        half == 2 ^ (drop - 1)
        odd == (product[5] \div (2 ^ drop)) % 2 = 1
        kept == [product EXCEPT ![5] = @ - low]
    IN  [limbs |-> IF low > half \/ (low = half /\ odd)
                   THEN Carry(kept, 5, 2 ^ drop)
                   ELSE kept,
         e |-> x.e]

\* Math.round(x): the integer nearest to x, a half rounded up, which is
\* floor((floor(2x) + 1) / 2).  2x is limbs * 2^(e - 51); the three low
\* limbs lie below the binary point for every x < 2^12.
MathRound(x) ==
    LET top == x.limbs[1] * LimbBase + x.limbs[2]
        shift == 51 - 3 * LimbBits - x.e
        twice == IF shift > 30 THEN 0 ELSE top \div (2 ^ shift)
    IN  (twice + 1) \div 2

\* Math.round((presentDays / totalWorkingDays) * 100)
RoundedPercent(presentDays, totalWorkingDays) ==
    MathRound(DoubleTimes100(DoubleDivide(presentDays, totalWorkingDays)))

calculateAttendancePercentage(presentDays, totalWorkingDays) ==
    IF totalWorkingDays = 0
    THEN 0
    ELSE RoundedPercent(presentDays, totalWorkingDays)

getTotalWorkingDaysInInternship(startDate, endDate, holidays) ==
    Len(getWorkingDaysInRange(startDate, endDate, holidays))

\* dataStore.getStudent(email): the students map is keyed by email.
StudentEmails == {students[i].email : i \in 1..Len(students)}
getStudent(email) ==
    students[CHOOSE k \in 1..Len(students) : students[k].email = email]

\* The attendance block of the dashboard; the student, internship, tasks
\* and assignments blocks are left out.
handleGetDashboard(user) ==
    IF user = NoUser
    THEN response' = [NoResponse EXCEPT !.status = 401,
                                        !.error = "Not authenticated"]
    ELSE IF user \notin StudentEmails
    THEN response' = [NoResponse EXCEPT !.status = 404,
                                        !.error = "Student not found"]
    ELSE LET student == getStudent(user)
             holidays == {}   \* Load from database
             totalWorkingDays ==
                 getTotalWorkingDaysInInternship(
                     student.internshipStartDate, student.internshipEndDate,
                     holidays)
             counted ==
                 countAttendance(AsExisting(getAttendance(attendance,
                                                          student.email)),
                                 student.internshipStartDate,
                                 student.internshipEndDate)
         IN  response' =
                 [status |-> 200,
                  attendance |->
                      [totalWorkingDays |-> totalWorkingDays,
                       presentDays |-> counted.present,
                       absentDays |-> counted.absent,
                       attendancePercentage |->
                           calculateAttendancePercentage(counted.present,
                                                         totalWorkingDays)]]

PercentageInputs == [presentDays : 0..NumDays, totalWorkingDays : 0..NumDays]
DashboardUsers == {NoUser, "s1@college.edu", "s2@college.edu", "s9@college.edu"}

\* A run either calls the function on a drawn pair, or serves a dashboard
\* request over a store that holds the students of StudentTables and any
\* rows of the sheet for s2, whose internship is one Wednesday.
InitPercentage ==
    /\ tz \in TZOffsets
    /\ scheduler = NewScheduler
    /\ validation = NoValidation
    /\ call = NoCall
    /\ storedHolidays = <<>>
    /\ response = NoResponse
    /\ \/ /\ input \in PercentageInputs
          /\ students = <<>>
          /\ attendance = <<>>
       \/ /\ input = NoInput
          /\ students \in StudentTables
          /\ \E existing \in ExistingLists :
                 attendance =
                     IF existing = <<>> THEN <<>>
                     ELSE [e \in {"s2@college.edu"} |->
                              StoredRows("s2@college.edu", existing)]

CallCalculateAttendancePercentage ==
    /\ input # NoInput
    /\ call.fn = "none"
    /\ call' = [fn |-> "calculateAttendancePercentage",
                value |-> calculateAttendancePercentage(
                              input.presentDays, input.totalWorkingDays)]
    /\ UNCHANGED <<scheduler, tz, input, validation, students, attendance,
                   storedHolidays, response>>

\* The handler writes nothing to the store; one request is drawn per run.
GetDashboard ==
    /\ students # <<>>
    /\ response = NoResponse
    /\ \E user \in DashboardUsers : handleGetDashboard(user)
    /\ UNCHANGED <<scheduler, tz, input, validation, call, students, attendance,
                   storedHolidays>>

NextPercentage == CallCalculateAttendancePercentage \/ GetDashboard

SpecPercentage == InitPercentage /\ [][NextPercentage]_vars

(***************************************************************************)
(* SpecRounding: calculateAttendancePercentage on day counts up to         *)
(* MaxPercentDays, the range where the double quotient and the exact one   *)
(* first part.                                                             *)
(***************************************************************************)
MaxPercentDays == 40

RoundingInputs ==
    [presentDays : 0..MaxPercentDays, totalWorkingDays : 0..MaxPercentDays]

InitRounding ==
    /\ tz \in TZOffsets
    /\ scheduler = NewScheduler
    /\ input \in RoundingInputs
    /\ validation = NoValidation
    /\ call = NoCall
    /\ students = <<>>
    /\ attendance = <<>>
    /\ storedHolidays = <<>>
    /\ response = NoResponse

NextRounding == CallCalculateAttendancePercentage

SpecRounding == InitRounding /\ [][NextRounding]_vars

(***************************************************************************)
(* SpecWeek: getWorkingDaysInWeek on drawn inputs.                         *)
(***************************************************************************)
WeekInputs == [date : Dates, holidays : HolidayLists]

InitWeek ==
    /\ tz \in TZOffsets
    /\ scheduler = NewScheduler
    /\ input \in WeekInputs
    /\ validation = NoValidation
    /\ call = NoCall
    /\ students = <<>>
    /\ attendance = <<>>
    /\ storedHolidays = <<>>
    /\ response = [status |-> 0]

CallGetWorkingDaysInWeek ==
    /\ call.fn = "none"
    /\ call' = [fn |-> "getWorkingDaysInWeek",
                value |-> getWorkingDaysInWeek(input.date, input.holidays)]
    /\ UNCHANGED <<scheduler, tz, input, validation, students, attendance,
                   storedHolidays, response>>

NextWeek == CallGetWorkingDaysInWeek

SpecWeek == InitWeek /\ [][NextWeek]_vars

(***************************************************************************)
(* SpecDay: isWeekend and isValidWorkingDay on drawn inputs.               *)
(***************************************************************************)
InitDay ==
    /\ tz \in TZOffsets
    /\ scheduler = NewScheduler
    /\ input \in WeekInputs
    /\ validation = NoValidation
    /\ call = NoCall
    /\ students = <<>>
    /\ attendance = <<>>
    /\ storedHolidays = <<>>
    /\ response = [status |-> 0]

CallIsWeekend ==
    /\ call.fn = "none"
    /\ call' = [fn |-> "isWeekend", value |-> isWeekend(input.date)]
    /\ UNCHANGED <<scheduler, tz, input, validation, students, attendance,
                   storedHolidays, response>>

CallIsValidWorkingDay ==
    /\ call.fn = "none"
    /\ call' = [fn |-> "isValidWorkingDay",
                value |-> isValidWorkingDay(input.date, input.holidays)]
    /\ UNCHANGED <<scheduler, tz, input, validation, students, attendance,
                   storedHolidays, response>>

NextDay == CallIsWeekend \/ CallIsValidWorkingDay

SpecDay == InitDay /\ [][NextDay]_vars

(***************************************************************************)
(* SpecNextDay: getNextWorkingDay on a drawn date and holiday list.        *)
(***************************************************************************)
InitNextDay == InitDay

CallGetNextWorkingDay ==
    /\ call.fn = "none"
    /\ call' = [fn |-> "getNextWorkingDay",
                value |-> getNextWorkingDay(input.date, input.holidays)]
    /\ UNCHANGED <<scheduler, tz, input, validation, students, attendance,
                   storedHolidays, response>>

NextNextDay == CallGetNextWorkingDay

SpecNextDay == InitNextDay /\ [][NextNextDay]_vars

(***************************************************************************)
(* SpecRange: getWorkingDaysInRange on drawn inputs.                       *)
(***************************************************************************)
RangeInputs == [startDate : Dates, endDate : Dates, holidays : HolidayLists]

InitRange ==
    /\ tz \in TZOffsets
    /\ scheduler = NewScheduler
    /\ input \in RangeInputs
    /\ validation = NoValidation
    /\ call = NoCall
    /\ students = <<>>
    /\ attendance = <<>>
    /\ storedHolidays = <<>>
    /\ response = [status |-> 0]

CallGetWorkingDaysInRange ==
    /\ call.fn = "none"
    /\ call' = [fn |-> "getWorkingDaysInRange",
                value |-> getWorkingDaysInRange(input.startDate,
                                                input.endDate,
                                                input.holidays)]
    /\ UNCHANGED <<scheduler, tz, input, validation, students, attendance,
                   storedHolidays, response>>

NextRange == CallGetWorkingDaysInRange

SpecRange == InitRange /\ [][NextRange]_vars

(***************************************************************************)
(* SpecRemaining: getInternshipDaysRemaining at a drawn current instant.   *)
(* new Date() is the clock's instant, in hours like every other instant;   *)
(* it runs from before the first date to a day past the last.              *)
(***************************************************************************)
\* Math.ceil(h / (1000 * 60 * 60 * 24)) for an interval of h hours.
MathCeilDays(h) == -((-h) \div HoursPerDay)

\* Math.max(a, b)
MathMax(a, b) == IF a >= b THEN a ELSE b

getInternshipDaysRemaining_Unclamped(startDate, endDate, today) ==
    MathCeilDays(GetTime(NewDate(endDate)) - GetTime(today))

getInternshipDaysRemaining(startDate, endDate, today) ==
    LET internshipEnd == NewDate(endDate)
    IN  IF today > internshipEnd
        THEN 0
        ELSE MathMax(0, MathCeilDays(GetTime(internshipEnd) - GetTime(today)))

ClockInstants == (0 - HoursPerDay) .. ((NumDays + 1) * HoursPerDay)

RemainingInputs ==
    [startDate : StartChoices, endDate : Dates, today : ClockInstants]

InitRemaining ==
    /\ tz \in TZOffsets
    /\ scheduler = NewScheduler
    /\ input \in RemainingInputs
    /\ validation = NoValidation
    /\ call = NoCall
    /\ students = <<>>
    /\ attendance = <<>>
    /\ storedHolidays = <<>>
    /\ response = NoResponse

CallGetInternshipDaysRemaining ==
    /\ call.fn = "none"
    /\ call' = [fn |-> "getInternshipDaysRemaining",
                value |-> getInternshipDaysRemaining(
                              input.startDate, input.endDate, input.today)]
    /\ UNCHANGED <<scheduler, tz, input, validation, students, attendance,
                   storedHolidays, response>>

NextRemaining == CallGetInternshipDaysRemaining

SpecRemaining == InitRemaining /\ [][NextRemaining]_vars

(***************************************************************************)
(* What the specification says of a calendar date, by the date itself.     *)
(***************************************************************************)
\* Monday..Friday of the Monday-anchored week that contains d.
WeekSpanOf(d) == MondayOf(d) .. (MondayOf(d) + 4)
\* Neither Saturday/Sunday nor a holiday.
IsWorkingDate(d, holidays) == ~IsSatOrSun(d) /\ d \notin holidays
\* The non-holiday dates of WeekSpanOf(d), ascending.
WorkingWeekOf(d, holidays) ==
    SelectSeq([k \in 1..5 |-> MondayOf(d) + k - 1],
              LAMBDA x : x \notin holidays)
\* How many records of the array are dated on a working day of d's week.
WeekRecordCount(records, d, holidays) ==
    Cardinality({k \in 1..Len(records) :
                    /\ records[k].date \in WeekSpanOf(d)
                    /\ records[k].date \notin holidays})
HasRecordOn(records, d) == \E k \in 1..Len(records) : records[k].date = d
Contains(errors, reason) == \E k \in 1..Len(errors) : errors[k] = reason

(***************************************************************************)
(* The four checks as the specification states them, on the arguments of   *)
(* the call in `input`.                                                    *)
(***************************************************************************)
RangeCheckPasses ==
    input.internshipStartDate <= input.date
        /\ input.date <= input.internshipEndDate
WorkingDayCheckPasses == IsWorkingDate(input.date, input.holidays)
DuplicateCheckPasses == ~HasRecordOn(input.existingAttendance, input.date)
WeekCount ==
    WeekRecordCount(input.existingAttendance, input.date, input.holidays)
QuotaCheckPasses == WeekCount < input.daysPerWeekAllowed

(***************************************************************************)
(* C1.  validateAttendanceMarkable returns isValid = true if and only if   *)
(* all four checks pass (date in [start, end]; date neither Saturday/Sunday *)
(* nor a holiday; no existing record on the date; fewer than               *)
(* daysPerWeekAllowed existing records on working days of the date's       *)
(* week), and isValid is true exactly when errors is empty.                *)
(* Violated west of UTC, where isWeekend reads the weekday of the day      *)
(* before: a Monday is refused as a weekend and a Saturday is accepted.    *)
(***************************************************************************)
C1_ValidIffAllChecksPass ==
    validation.called =>
        /\ validation.isValid <=>
               (RangeCheckPasses /\ WorkingDayCheckPasses
                    /\ DuplicateCheckPasses /\ QuotaCheckPasses)
        /\ validation.isValid <=> (validation.errors = <<>>)

\* The same statement for the timezones at or east of UTC, where it holds.
C1_AtOrEastOfUTC == tz >= 0 => C1_ValidIffAllChecksPass

(***************************************************************************)
(* C2.  All four checks run on every call and every failure is collected:  *)
(* errors holds exactly one reason per failed check (range, working day,   *)
(* duplicate, weekly quota, each check failing as the code's own helper    *)
(* decides it), in that relative order, so errors[1] is the reason of the  *)
(* earliest failed check.                                                  *)
(***************************************************************************)
RangeFails ==
    ~isWithinInternshipPeriod(input.date, input.internshipStartDate,
                              input.internshipEndDate)
WorkingDayFails == ~isValidWorkingDay(input.date, input.holidays).isValid
DuplicateFails == HasRecordOn(input.existingAttendance, input.date)
QuotaFails ==
    Cardinality({k \in 1..Len(input.existingAttendance) :
        Includes(getWorkingDaysInWeek(input.date, input.holidays),
                 input.existingAttendance[k].date)})
        >= input.daysPerWeekAllowed
\* The check a reason belongs to: 1 range, 2 working day, 3 duplicate,
\* 4 weekly quota; 0 for a string that is no reason of the validator.
CheckOf(reason) ==
    IF reason = RangeReason THEN 1
    ELSE IF reason \in {WeekendReason, HolidayReason} THEN 2
    ELSE IF reason = DuplicateReason THEN 3
    ELSE IF reason = WeeklyLimitReason(input.daysPerWeekAllowed) THEN 4
    ELSE 0
CheckFails(k) ==
    CASE k = 1 -> RangeFails
      [] k = 2 -> WorkingDayFails
      [] k = 3 -> DuplicateFails
      [] k = 4 -> QuotaFails
C2_AllFailuresCollectedInOrder ==
    validation.called =>
        LET errors == validation.errors
        IN  /\ \A i \in 1..Len(errors) : CheckOf(errors[i]) \in 1..4
            /\ \A k \in 1..4 :
                   Cardinality({i \in 1..Len(errors) : CheckOf(errors[i]) = k})
                       = IF CheckFails(k) THEN 1 ELSE 0
            /\ \A i, j \in 1..Len(errors) :
                   i < j => CheckOf(errors[i]) < CheckOf(errors[j])
            /\ Len(errors) > 0 =>
                   /\ CheckFails(CheckOf(errors[1]))
                   /\ \A k \in 1..(CheckOf(errors[1]) - 1) : ~CheckFails(k)

\* A call on which three checks failed at once and the working-day check
\* passed: the range reason first, the weekly-limit reason last.
C2_Witness ==
    /\ validation.called
    /\ validation.errors =
          <<RangeReason, DuplicateReason,
            WeeklyLimitReason(input.daysPerWeekAllowed)>>

(***************************************************************************)
(* C6.  The weekly quota is rejected on the boundary: with                 *)
(* N = daysPerWeekAllowed, a date whose week holds exactly N-1 existing    *)
(* records on working days gets no weekly-limit reason, and a date whose   *)
(* week holds N or more gets the reason and isValid = false.               *)
(* Stated for a server whose timezone is UTC.  Violated there by a Sunday  *)
(* whose week is full: the code counts the records of the week after       *)
(* (C10), finds none and pushes no weekly-limit reason.                    *)
(***************************************************************************)
C6_QuotaBoundary ==
    (validation.called /\ tz = 0) =>
        /\ WeekCount = input.daysPerWeekAllowed - 1 =>
               ~Contains(validation.errors,
                         WeeklyLimitReason(input.daysPerWeekAllowed))
        /\ WeekCount >= input.daysPerWeekAllowed =>
               /\ Contains(validation.errors,
                           WeeklyLimitReason(input.daysPerWeekAllowed))
               /\ ~validation.isValid

\* The boundary as the code draws it at or east of UTC: the claim for every
\* date but a Sunday.
C6_BoundaryMondayToSaturday ==
    (validation.called /\ tz >= 0 /\ CalendarWeekday(input.date) # 0) =>
        (Contains(validation.errors,
                  WeeklyLimitReason(input.daysPerWeekAllowed))
            <=> WeekCount >= input.daysPerWeekAllowed)

(***************************************************************************)
(* C7.  Whenever the existing records hold a record of either status dated *)
(* on the prospective date, isValid is false and errors contains           *)
(* "Attendance already marked for this date"; when none does, that reason  *)
(* is absent.                                                              *)
(***************************************************************************)
C7_DuplicateRejected ==
    validation.called =>
        IF HasRecordOn(input.existingAttendance, input.date)
        THEN ~validation.isValid
                /\ Contains(validation.errors, DuplicateReason)
        ELSE ~Contains(validation.errors, DuplicateReason)

\* A duplicate of an absent record, on a day every other check accepts.
C7_Witness ==
    /\ validation.called
    /\ validation.errors = <<DuplicateReason>>
    /\ \E k \in 1..Len(input.existingAttendance) :
           /\ input.existingAttendance[k].date = input.date
           /\ input.existingAttendance[k].status = "absent"

(***************************************************************************)
(* C8.  The range check is inclusive at both ends: errors contains         *)
(* "Date is outside internship period" if and only if date < start or      *)
(* date > end; the start date and the end date are in range, the day after *)
(* the end date is not.                                                    *)
(***************************************************************************)
C8_RangeInclusive ==
    validation.called =>
        (Contains(validation.errors, RangeReason)
            <=> (input.date < input.internshipStartDate
                    \/ input.date > input.internshipEndDate))

\* A mark on the end date itself, found in range and valid.
C8_Witness ==
    /\ validation.called
    /\ input.date = input.internshipEndDate
    /\ input.date > input.internshipStartDate
    /\ validation.isValid

(***************************************************************************)
(* C9.  The working-day check contributes at most one reason: for a        *)
(* Saturday/Sunday it is "Cannot mark attendance on weekends" even when    *)
(* the date is also a holiday, for a Monday..Friday holiday it is "Cannot  *)
(* mark attendance on holidays", and an in-range weekday holiday with no   *)
(* existing records yields exactly that one reason.                        *)
(* Violated west of UTC: a Monday holiday is reported as a weekend, and a  *)
(* Saturday holiday as a holiday.                                          *)
(***************************************************************************)
C9_OneWorkingDayReason ==
    validation.called =>
        LET errors == validation.errors
            weekend == Contains(errors, WeekendReason)
            holiday == Contains(errors, HolidayReason)
        IN  /\ ~(weekend /\ holiday)
            /\ IsSatOrSun(input.date) => (weekend /\ ~holiday)
            /\ (~IsSatOrSun(input.date) /\ input.date \in input.holidays)
                   => (holiday /\ ~weekend)
            /\ (~IsSatOrSun(input.date) /\ input.date \in input.holidays
                    /\ RangeCheckPasses /\ input.existingAttendance = <<>>)
                   => errors = <<HolidayReason>>

\* The same statement for the timezones at or east of UTC, where it holds.
C9_AtOrEastOfUTC == tz >= 0 => C9_OneWorkingDayReason

(***************************************************************************)
(* C10.  For every date d, Saturdays and Sundays included,                 *)
(* getWorkingDaysInWeek(d, H) is exactly the non-holiday dates of          *)
(* Monday..Friday of the Monday-anchored week containing d.                *)
(* Stated for a server whose timezone is UTC, where getDay() reads the     *)
(* date's own weekday.  Violated there by every Sunday: dayOfWeek is 0 and *)
(* "monday" is d + 1, the Monday after d.                                  *)
(***************************************************************************)
C10_WeekIsMondayAnchored ==
    (call.fn = "getWorkingDaysInWeek" /\ tz = 0)
        => call.value = WorkingWeekOf(input.date, input.holidays)

\* What the code does instead, in every timezone at or east of UTC: the
\* claim for Monday..Saturday, and the week after d for a Sunday.
C10_WeekAsComputed ==
    (call.fn = "getWorkingDaysInWeek" /\ tz >= 0)
        => call.value =
              IF CalendarWeekday(input.date) = 0
              THEN WorkingWeekOf(input.date + 1, input.holidays)
              ELSE WorkingWeekOf(input.date, input.holidays)

(***************************************************************************)
(* The attendance store, by student and by Monday-anchored week.           *)
(***************************************************************************)
RecordsOf(store, email) == getAttendance(store, email)
\* The Monday-anchored calendar week (Monday..Sunday) a date lies in.
WeekIndex(d) == d \div 7
RecordsInWeek(store, email, w) ==
    {k \in 1..Len(RecordsOf(store, email)) :
        WeekIndex(RecordsOf(store, email)[k].date) = w}

(***************************************************************************)
(* C3.  In every state reached by mark-attendance requests from an empty   *)
(* attendance store there is at most one attendance record per             *)
(* (student, date) pair.                                                   *)
(***************************************************************************)
C3_OneRecordPerStudentAndDate ==
    \A e \in DOMAIN attendance :
        \A i, j \in 1..Len(attendance[e]) :
            i # j => attendance[e][i].date # attendance[e][j].date

\* A second mark for a date the student already has a record on, refused.
C3_Witness ==
    /\ response.status = 400
    /\ response.message = DuplicateReason
    /\ \E e \in DOMAIN attendance : Len(attendance[e]) > 0

(***************************************************************************)
(* C4.  In every state reached by mark-attendance requests from an empty   *)
(* attendance store, every student has at most daysPerWeekAllowed records  *)
(* dated in any one Monday-anchored calendar week.                         *)
(***************************************************************************)
C4_WeeklyQuotaNeverExceeded ==
    \A i \in 1..Len(students) :
        \A w \in 0..WeekIndex(NumDays - 1) :
            Cardinality(RecordsInWeek(attendance, students[i].email, w))
                <= students[i].daysPerWeekAllowed

\* A student whose week is full, a further mark in it refused for the quota,
\* and a record in the week after.
C4_Witness ==
    \E i \in 1..Len(students) :
        /\ Cardinality(RecordsInWeek(attendance, students[i].email, 0))
              = students[i].daysPerWeekAllowed
        /\ Cardinality(RecordsInWeek(attendance, students[i].email, 1)) > 0
        /\ response.status = 400
        /\ response.message = WeeklyLimitReason(students[i].daysPerWeekAllowed)

(***************************************************************************)
(* C5.  handleMarkAttendance saves only after the validator returned       *)
(* isValid = true: a request whose validation fails gets a 400 with        *)
(* errors[0] and leaves the store as it was; a request whose validation    *)
(* succeeds appends exactly one record, with the student, date and status  *)
(* the response echoes from the request, to that student's array and       *)
(* leaves every other array as it was.                                     *)
(***************************************************************************)
AppendsOneRecord ==
    \E i \in 1..Len(students) :
        LET email == students[i].email
            before == RecordsOf(attendance, email)
            after == RecordsOf(attendance', email)
        IN  /\ response'.attendance.studentId = students[i].id
            /\ Len(after) = Len(before) + 1
            /\ SubSeq(after, 1, Len(before)) = before
            /\ after[Len(after)].studentEmail = email
            /\ after[Len(after)].date = response'.attendance.date
            /\ after[Len(after)].status = response'.attendance.status
            /\ \A e \in (DOMAIN attendance \cup DOMAIN attendance') \ {email} :
                   RecordsOf(attendance', e) = RecordsOf(attendance, e)
C5_Step ==
    /\ (validation'.called /\ ~validation'.isValid) =>
           /\ attendance' = attendance
           /\ response'.status = 400
           /\ response'.message = validation'.errors[1]
    /\ (validation'.called /\ validation'.isValid) =>
           /\ response'.status = 200
           /\ AppendsOneRecord
    /\ attendance' # attendance =>
           (validation'.called /\ validation'.isValid)
C5_SavedOnlyAfterValid == [][C5_Step]_vars

\* A refused request after an accepted one: the store holds the record the
\* accepted request saved and nothing of the refused one.
C5_Witness ==
    /\ validation.called
    /\ ~validation.isValid
    /\ response.status = 400
    /\ \E e \in DOMAIN attendance : Len(attendance[e]) = 1

(***************************************************************************)
(* C11.  For every date d and holiday set H, isValidWorkingDay(d, H)       *)
(* .isValid is true if and only if d is not a Saturday or Sunday and d is  *)
(* not a member of H: every Saturday/Sunday is non-working with an empty   *)
(* holiday set, and every member of H is non-working even on a weekday.    *)
(* Violated west of UTC, where isWeekend reads the weekday of the day      *)
(* before: a Monday outside H is non-working, a Saturday outside H is      *)
(* working.                                                                *)
(***************************************************************************)
C11_WorkingDayPredicate ==
    call.fn = "isValidWorkingDay" =>
        (call.value.isValid <=> IsWorkingDate(input.date, input.holidays))

\* The same statement for the timezones at or east of UTC, where it holds.
C11_AtOrEastOfUTC == tz >= 0 => C11_WorkingDayPredicate

\* The half of the claim that holds in every timezone: a member of H is
\* never a working day.
C11_HolidayNeverWorking ==
    (call.fn = "isValidWorkingDay" /\ input.date \in input.holidays)
        => ~call.value.isValid

(***************************************************************************)
(* C18.  Weekday and day comparisons use one canonical day boundary: for   *)
(* every calendar-date string d and every timezone offset of the runtime,  *)
(* isWeekend(d) is true if and only if calendar day d is a Saturday or a   *)
(* Sunday (so that two runs that differ in the offset only return the same *)
(* value).                                                                 *)
(* Violated west of UTC: new Date(d) is UTC midnight of d and getDay()     *)
(* reads it in local time, on the evening of the day before, so a Monday   *)
(* is a weekend, a Saturday is not, and the run at UTC disagrees.          *)
(***************************************************************************)
C18_WeekendByCalendarDay ==
    call.fn = "isWeekend" => (call.value <=> IsSatOrSun(input.date))

\* The same statement for the timezones at or east of UTC, where it holds.
C18_AtOrEastOfUTC == tz >= 0 => C18_WeekendByCalendarDay

\* What isWeekend answers west of UTC: whether the day before d is a
\* Saturday or a Sunday.
C18_WestOfUTC ==
    (call.fn = "isWeekend" /\ tz < 0)
        => (call.value <=> IsSatOrSun(input.date - 1))

(***************************************************************************)
(* C12.  getWorkingDaysInRange(start, end, H) returns, strictly ascending  *)
(* and without repetition, exactly the dates d with start <= d <= end that *)
(* are neither Saturday/Sunday nor in H; it holds no date outside          *)
(* [start, end], and it is the empty sequence when start > end.            *)
(* Violated west of UTC, where the loop leaves out the Sundays and Mondays *)
(* and keeps the Saturdays (isWeekend answers for the day before).         *)
(***************************************************************************)
SeqElements(seq) == {seq[i] : i \in 1..Len(seq)}
StrictlyAscending(seq) == \A i, j \in 1..Len(seq) : i < j => seq[i] < seq[j]
C12_ExactlyTheWorkingDates ==
    call.fn = "getWorkingDaysInRange" =>
        /\ StrictlyAscending(call.value)
        /\ SeqElements(call.value) =
               {d \in Dates : /\ input.startDate <= d
                              /\ d <= input.endDate
                              /\ IsWorkingDate(d, input.holidays)}
        /\ input.startDate > input.endDate => call.value = <<>>

\* The same statement for the timezones at or east of UTC, where it holds.
C12_AtOrEastOfUTC == tz >= 0 => C12_ExactlyTheWorkingDates

\* What holds in every timezone: strictly ascending, nothing outside
\* [start, end], no member of H, empty when start > end.
C12_AscendingWithinRange ==
    call.fn = "getWorkingDaysInRange" =>
        /\ StrictlyAscending(call.value)
        /\ \A d \in SeqElements(call.value) :
               /\ input.startDate <= d
               /\ d <= input.endDate
               /\ d \notin input.holidays
        /\ input.startDate > input.endDate => call.value = <<>>

(***************************************************************************)
(* C13.  The weekly quota check counts existing records of any status:     *)
(* what validateAttendanceMarkable returns (isValid and errors) is         *)
(* unchanged when the status of any one existing record is switched        *)
(* between present and absent, so an absent record consumes one unit of    *)
(* the weekly cap exactly like a present one.                              *)
(***************************************************************************)
SwitchStatus(status) == IF status = "present" THEN "absent" ELSE "present"
\* The array with the status of its k-th record switched.
WithStatusSwitched(records, k) ==
    [records EXCEPT ![k].status = SwitchStatus(records[k].status)]
C13_StatusDoesNotMatter ==
    validation.called =>
        \A k \in 1..Len(input.existingAttendance) :
            \E v \in {validateAttendanceMarkable(
                          input.studentId, input.date,
                          input.daysPerWeekAllowed,
                          input.internshipStartDate, input.internshipEndDate,
                          input.holidays,
                          WithStatusSwitched(input.existingAttendance, k))} :
                /\ v.isValid = validation.isValid
                /\ v.errors = validation.errors

\* A Wednesday refused for the weekly limit alone, the cap of two being
\* used up by one present and one absent record of its week.
C13_Witness ==
    /\ validation.called
    /\ validation.errors = <<WeeklyLimitReason(input.daysPerWeekAllowed)>>
    /\ Len(input.existingAttendance) = input.daysPerWeekAllowed
    /\ \E i, j \in 1..Len(input.existingAttendance) :
           /\ input.existingAttendance[i].status = "present"
           /\ input.existingAttendance[j].status = "absent"

(***************************************************************************)
(* Steps of the server, read off a pair of states.                         *)
(***************************************************************************)
\* The step is handleMarkAttendance serving the request req.
IsMarkStep(req) ==
    /\ handleMarkAttendance(req.parses, req.studentId, req.date,
                            req.status, req.user)
    /\ UNCHANGED <<scheduler, tz, input, call, students, storedHolidays>>
\* The records of the store dated d, by student and position.
RecordsDated(store, d) ==
    UNION {{<<e, k>> : k \in {i \in 1..Len(store[e]) : store[e][i].date = d}}
              : e \in DOMAIN store}

(***************************************************************************)
(* C14.  After an administrator has created a holiday on date d            *)
(* (handleCreateHoliday) and for as long as it is not deleted, every       *)
(* mark-attendance request for date d is rejected and no attendance record *)
(* dated d is added to the store.                                          *)
(* Violated: handleMarkAttendance hands the validator an empty holidays    *)
(* array (the load from the store is a TODO), so a mark on a stored        *)
(* holiday that passes the other checks is answered 200 and saved.         *)
(***************************************************************************)
C14_Step ==
    \A req \in MarkRequests :
        (IsMarkStep(req) /\ req.date \in getHolidayDates(storedHolidays)) =>
            /\ response'.status # 200
            /\ Cardinality(RecordsDated(attendance', req.date))
                  = Cardinality(RecordsDated(attendance, req.date))
C14_HolidayBlocksMarking == [][C14_Step]_vars

(***************************************************************************)
(* C15.  Once an attendance record has been persisted by a successful      *)
(* mark-attendance request it is never modified or removed: every step of  *)
(* the server (mark-attendance requests, runSyncNow, handleSyncGoogleForm, *)
(* holiday administration) leaves it in the store with the same student,   *)
(* date and status.                                                        *)
(* Violated by runSyncNow: it clears the attendance map and refills it     *)
(* from the sheet, which holds no record a faculty marked.                 *)
(***************************************************************************)
\* The records a mark-attendance request saved carry the user who marked.
MarkedRecords(store) ==
    UNION {{store[e][i] : i \in {k \in 1..Len(store[e]) :
                                    store[e][k].markedBy # NoUser}}
              : e \in DOMAIN store}
Holds(store, record) ==
    \E k \in 1..Len(getAttendance(store, record.studentEmail)) :
        LET a == getAttendance(store, record.studentEmail)[k]
        IN  /\ a.studentEmail = record.studentEmail
            /\ a.date = record.date
            /\ a.status = record.status
C15_Step == \A record \in MarkedRecords(attendance) : Holds(attendance', record)
C15_PersistedRecordsStay == [][C15_Step]_vars

\* The claim for every step but a scheduler sync: mark-attendance requests,
\* form syncs and holiday administration keep every marked record.
C15_StepsOtherThanRunSyncNow == [][(~RunSyncNow) => C15_Step]_vars

(***************************************************************************)
(* C16.  In the response of handleValidateAttendance every flag of the     *)
(* details breakdown reflects its condition for the requested date:        *)
(* isWeekend is true iff the date is a Saturday or Sunday, isHoliday iff   *)
(* the date is in the holiday set of the store, outsideInternshipDates iff *)
(* the date lies outside [internshipStartDate, internshipEndDate], and     *)
(* exceedsWeeklyLimit iff the student's existing records on working days   *)
(* of the date's week number daysPerWeekAllowed or more.                   *)
(* Stated for a server whose timezone is UTC.  Violated there: isHoliday   *)
(* is read off an empty holidays array and exceedsWeeklyLimit is the       *)
(* constant false.                                                         *)
(***************************************************************************)
PreflightStudent == FindStudent(input.studentId)
PreflightRecords ==
    AsExisting(getAttendance(attendance, PreflightStudent.email))
PreflightAnswered == response.status = 200 /\ validation.called
C16_DetailsReflectConditions ==
    (PreflightAnswered /\ tz = 0) =>
        LET details == response.details
            holidaySet == getHolidayDates(storedHolidays)
        IN  /\ details.isWeekend <=> IsSatOrSun(input.date)
            /\ details.isHoliday <=> input.date \in holidaySet
            /\ details.outsideInternshipDates <=>
                   (input.date < PreflightStudent.internshipStartDate
                       \/ input.date > PreflightStudent.internshipEndDate)
            /\ details.exceedsWeeklyLimit <=>
                   WeekRecordCount(PreflightRecords, input.date, holidaySet)
                       >= PreflightStudent.daysPerWeekAllowed

\* The two flags that are as claimed: the range flag in every timezone, the
\* weekend flag at or east of UTC.
C16_RangeAndWeekendFlags ==
    PreflightAnswered =>
        /\ response.details.outsideInternshipDates <=>
               (input.date < PreflightStudent.internshipStartDate
                   \/ input.date > PreflightStudent.internshipEndDate)
        /\ tz >= 0 => (response.details.isWeekend <=> IsSatOrSun(input.date))

\* The two flags that never rise, whatever the store holds.
C16_HolidayAndWeeklyFlagsNeverSet ==
    PreflightAnswered =>
        /\ ~response.details.isHoliday
        /\ ~response.details.exceedsWeeklyLimit

(***************************************************************************)
(* C17.  A structurally invalid date input (an unparsable mark date or an  *)
(* unparsable policy start/end date) is never reported as a business-rule  *)
(* failure: validateAttendanceMarkable returns no result for it, neither   *)
(* isValid = false with rule-violation reasons nor isValid = true, and     *)
(* signals it outside the ValidationResult.                                *)
(* Violated by an unparsable policy date: the comparison with NaN is false *)
(* and the call returns isValid = false with "Date is outside internship   *)
(* period".                                                                *)
(***************************************************************************)
SomeDateUnparsable ==
    ~input.date.parses \/ ~input.internshipStartDate.parses
        \/ ~input.internshipEndDate.parses
C17_MalformedIsNotARuleFailure ==
    (call.fn = "validateAttendanceMarkable" /\ SomeDateUnparsable)
        => call.value.threw

\* The half of the claim that holds: an unparsable mark date ends the call
\* in a RangeError, whatever the policy dates are.
C17_UnparsableMarkDateThrows ==
    (call.fn = "validateAttendanceMarkable" /\ ~input.date.parses)
        => call.value.threw

\* What an unparsable policy date gives for a parsable mark date: a result
\* whose first reason is the range reason.
C17_UnparsablePolicyDateIsRangeFailure ==
    (call.fn = "validateAttendanceMarkable" /\ input.date.parses
        /\ SomeDateUnparsable)
        => /\ ~call.value.threw
           /\ ~call.value.isValid
           /\ call.value.errors[1] = RangeReason

(***************************************************************************)
(* C19.  For every record list R and range [s, e], countAttendance(R, s,   *)
(* e) counts exactly the records whose date d satisfies s <= d <= e, both  *)
(* ends inclusive: present is the number of those with status present,     *)
(* absent the number with status absent, and total = present + absent =    *)
(* the number of records in range.                                         *)
(***************************************************************************)
InCountedRange(k) ==
    /\ input.startDate <= input.attendanceRecords[k].date
    /\ input.attendanceRecords[k].date <= input.endDate
CountedWithStatus(status) ==
    Cardinality({k \in 1..Len(input.attendanceRecords) :
                    /\ InCountedRange(k)
                    /\ input.attendanceRecords[k].status = status})
C19_CountsRecordsInRange ==
    call.fn = "countAttendance" =>
        /\ call.value.present = CountedWithStatus("present")
        /\ call.value.absent = CountedWithStatus("absent")
        /\ call.value.total = call.value.present + call.value.absent
        /\ call.value.total =
               Cardinality({k \in 1..Len(input.attendanceRecords) :
                               InCountedRange(k)})

\* A present record on the start date and an absent record on the end
\* date, a later day, both counted.
C19_Witness ==
    /\ call.fn = "countAttendance"
    /\ input.startDate < input.endDate
    /\ \E i, j \in 1..Len(input.attendanceRecords) :
           /\ input.attendanceRecords[i].date = input.startDate
           /\ input.attendanceRecords[i].status = "present"
           /\ input.attendanceRecords[j].date = input.endDate
           /\ input.attendanceRecords[j].status = "absent"
    /\ call.value = [present |-> 1, absent |-> 1, total |-> 2]

(***************************************************************************)
(* C20.  calculateAttendancePercentage(presentDays, totalWorkingDays)      *)
(* returns an integer in 0..100 for every pair of non-negative integer     *)
(* arguments, the pairs handleGetDashboard passes included (the present    *)
(* count of countAttendance over the internship range and the total of     *)
(* getTotalWorkingDaysInInternship).                                       *)
(* Violated whenever presentDays > totalWorkingDays > 0: the quotient is   *)
(* not capped.  The dashboard passes such a pair when the store holds more *)
(* present rows in the range than the range has working days.              *)
(***************************************************************************)
C20_PercentageWithinRange ==
    /\ call.fn = "calculateAttendancePercentage" => call.value \in 0..100
    /\ (response.status = 200 /\ students # <<>>) =>
           response.attendance.attendancePercentage \in 0..100

\* The range the code keeps to: 0..100 when presentDays <= totalWorkingDays.
C20_WithinRangeWhenPresentAtMostTotal ==
    /\ (call.fn = "calculateAttendancePercentage"
            /\ input.presentDays <= input.totalWorkingDays)
           => call.value \in 0..100
    /\ (response.status = 200 /\ students # <<>>
            /\ response.attendance.presentDays
                   <= response.attendance.totalWorkingDays)
           => response.attendance.attendancePercentage \in 0..100

\* The dashboard half of the claim on its own.  Violated by student s2,
\* whose internship has one working day, with two present rows on it.
C20_DashboardAtMostHundred ==
    ~(/\ response.status = 200
      /\ students # <<>>
      /\ response.attendance.attendancePercentage > 100)

(***************************************************************************)
(* C21: calculateAttendancePercentage(p, t) is round(100 * p / t), a half  *)
(* rounded up, whenever t > 0, and is 0 whenever t = 0.                    *)
(***************************************************************************)
PercentageCalled == call.fn = "calculateAttendancePercentage"

\* round(100 * p / t), a half rounded up, of the exact quotient.
ExactRoundedPercent(p, t) == (2 * 100 * p + t) \div (2 * t)

\* C21 as stated: the result is round(100 * presentDays / totalWorkingDays)
\* with a half rounded up whenever the total is positive, and 0 whenever
\* the total is 0.  Violated: 23 of 40 is 57.5 exactly, but 23 / 40 * 100 in
\* doubles is 57.49999999999999 and Math.round gives 57.
C21_RoundsHalfUp ==
    PercentageCalled =>
        call.value = IF input.totalWorkingDays = 0 THEN 0
                     ELSE ExactRoundedPercent(input.presentDays,
                                              input.totalWorkingDays)

\* What does hold of the rounding: a total of 0 gives exactly 0, and every
\* other result is the exact rounding or one below it.
C21_ZeroTotalGivesZero ==
    (PercentageCalled /\ input.totalWorkingDays = 0) => call.value = 0

C21_AtMostOneBelowExact ==
    (PercentageCalled /\ input.totalWorkingDays > 0) =>
        LET exact == ExactRoundedPercent(input.presentDays,
                                         input.totalWorkingDays)
        IN  call.value \in {exact - 1, exact}

(***************************************************************************)
(* C22: getInternshipDaysRemaining is max(0, ceil((end - now) / 1 day)),   *)
(* never negative, and 0 at every instant after the end date.              *)
(***************************************************************************)
RemainingCalled == call.fn = "getInternshipDaysRemaining"

\* The least whole number of days that covers h hours.
DaysCovering(h) == CHOOSE n \in -(NumDays + 2) .. (NumDays + 2) :
                       /\ n * HoursPerDay >= h
                       /\ (n - 1) * HoursPerDay < h

\* C22: for every end date and every current instant the result is
\* max(0, ceil((end - now) / 1 day)); it is never negative and it is 0 at
\* every instant after the end date.
C22_DaysRemainingNeverNegative ==
    RemainingCalled =>
        LET left == DaysCovering(input.endDate * HoursPerDay - input.today)
        IN  /\ call.value = (IF left > 0 THEN left ELSE 0)
            /\ call.value >= 0
            /\ input.today > input.endDate * HoursPerDay => call.value = 0

\* Part of a day is left before the end date and counts as a whole day;
\* and, in another run, the end date is more than a day past.
C22_Witness ==
    /\ RemainingCalled
    /\ (input.endDate * HoursPerDay - input.today) % HoursPerDay # 0
    /\ input.today < input.endDate * HoursPerDay
    /\ call.value >= 2

C22_WitnessAfterEnd ==
    /\ RemainingCalled
    /\ input.today > (input.endDate + 1) * HoursPerDay
    /\ call.value = 0

(***************************************************************************)
(* C23: validation has no side effects.                                    *)
(***************************************************************************)
\* C23: a request to handleValidateAttendance, and the call to
\* validateAttendanceMarkable it makes, leaves the attendance store, the
\* holiday set and the student policies as they were, whatever the outcome;
\* the existingAttendance array handed to the validator is the store's own.
C23_Step == UNCHANGED <<students, attendance, storedHolidays>>
C23_ValidationHasNoSideEffects == [][C23_Step]_vars

\* A request for a student with rows in the store was answered as not
\* markable while a holiday was stored.
C23_Witness ==
    /\ PreflightAnswered
    /\ ~response.isValid
    /\ PreflightRecords # <<>>
    /\ storedHolidays # <<>>

\* The same for a direct call: the arguments are as they were, the
\* existingAttendance list included.
C23_ValidatorLeavesArguments == [][input' = input]_vars

(***************************************************************************)
(* C24: a faculty user's mark request persists a record for a student only *)
(* if the student is assigned to that faculty member.                      *)
(***************************************************************************)
StudentOfEmail(email) == CHOOSE st \in SeqElements(students) : st.email = email

\* C24 as stated: every record a faculty user's request persisted is for a
\* student whose facultyEmail is that user's email; a request for an
\* unassigned student adds no record.  Violated: nothing between the route
\* and addAttendance compares student.facultyEmail with req.user.email.
C24_OnlyAssignedFacultyMark ==
    \A e \in DOMAIN attendance : \A i \in 1..Len(attendance[e]) :
        attendance[e][i].markedBy \in FacultyUsers =>
            StudentOfEmail(e).facultyEmail = attendance[e][i].markedBy

(***************************************************************************)
(* C25: a custom set of permitted weekday names supersedes the weekend     *)
(* rule.                                                                   *)
(***************************************************************************)
DayNames == <<"Sunday", "Monday", "Tuesday", "Wednesday", "Thursday",
              "Friday", "Saturday">>
DayNameOf(d) == DayNames[CalendarWeekday(d) + 1]

\* C25 as stated: for a student whose policy has a custom set of permitted
\* weekday names, a mark is accepted only on a date whose weekday is in the
\* set and which is not a holiday, whether or not it is a Saturday or
\* Sunday.  Violated: the mark path never reads customWorkingDays and
\* applies the weekend rule to every student.
C25_CustomDaysSupersedeWeekend ==
    \A e \in DOMAIN attendance : \A i \in 1..Len(attendance[e]) :
        LET student == StudentOfEmail(e)
            record == attendance[e][i]
        IN  (record.markedBy \in FacultyUsers
                 /\ student.customWorkingDays # {}) =>
                /\ DayNameOf(record.date) \in student.customWorkingDays
                /\ record.date \notin getHolidayDates(storedHolidays)

(***************************************************************************)
(* C26: of two concurrent mark requests for the same student and date at   *)
(* most one succeeds and at most one record is persisted.                  *)
(***************************************************************************)
RaceRecords ==
    LET rows == getAttendance(attendance, FindStudent(input.studentId).email)
    IN  {k \in 1..Len(rows) : rows[k].date = input.date}

\* C26: whichever order the two handlers run in, at most one of the two
\* requests is answered 200 and the store holds at most one record for the
\* student and date; no step of the other request falls between a
\* handler's read of the existing attendance and its addAttendance.
C26_AtMostOneRequestSucceeds ==
    /\ Cardinality({i \in 1..2 : call.value[i] = 200}) <= 1
    /\ Cardinality(RaceRecords) <= 1

\* Both requests were handled: one was answered 200 and its record is in
\* the store, the other was refused as already marked.
C26_Witness ==
    /\ \E i, j \in 1..2 : call.value[i] = 200 /\ call.value[j] = 400
    /\ response.message = "Attendance already marked for this date"
    /\ Cardinality(RaceRecords) = 1
    /\ input.requests[1].user # input.requests[2].user

(***************************************************************************)
(* C27: a sync whose fetch fails changes nothing but the failure count.    *)
(***************************************************************************)
\* C27: when the fetch of a runSyncNow rejects, the sync leaves the store
\* (students, attendance, holidays) exactly as it was, adds one to
\* failedSyncs, leaves successfulSyncs and lastSyncTime as they were, and
\* returns a result with success = false.
C27_Step ==
    (\E sheetsData \in SheetsData : SyncSettlesWith(FALSE, sheetsData)) =>
        /\ UNCHANGED <<students, attendance, storedHolidays>>
        /\ scheduler'.stats.failedSyncs = scheduler.stats.failedSyncs + 1
        /\ scheduler'.stats.successfulSyncs = scheduler.stats.successfulSyncs
        /\ scheduler'.lastSyncTime = scheduler.lastSyncTime
        /\ call'.fn = "runSyncNow"
        /\ ~call'.value.success
C27_FailedFetchChangesNothing == [][C27_Step]_vars

\* A sync has failed after an earlier one had filled the store.
C27_Witness ==
    /\ call.fn = "runSyncNow"
    /\ ~call.value.success
    /\ scheduler.stats.failedSyncs = 1
    /\ scheduler.stats.successfulSyncs = 1
    /\ scheduler.lastSyncTime = 1
    /\ students # <<>>
    /\ attendance # <<>>

(***************************************************************************)
(* C28: startAutoSync and stopAutoSync keep at most one interval timer.    *)
(***************************************************************************)
C28_Invariant ==
    /\ Cardinality(scheduler.timers) <= 1
    /\ isAutoSyncRunning(scheduler) <=> scheduler.timers # {}

SyncStarted ==
    scheduler'.stats.totalSyncs > scheduler.stats.totalSyncs

C28_Step ==
    \* startAutoSync while running: no timer, no sync
    /\ (StartAutoSync /\ isAutoSyncRunning(scheduler)) =>
           /\ scheduler'.timers = scheduler.timers
           /\ ~SyncStarted
    \* a sync is started by a timer only while auto-sync runs
    /\ (SyncStarted /\ ~StartAutoSync) => isAutoSyncRunning(scheduler)

\* C28: under every sequence of startAutoSync and stopAutoSync calls at
\* most one interval timer is alive, isAutoSyncRunning() is true exactly
\* when one is, startAutoSync while running creates no timer and starts no
\* sync, and once stopAutoSync has run no scheduled sync is started.
C28_AtMostOneTimer == []C28_Invariant /\ [][C28_Step]_vars

\* Auto-sync was started, stopped and started again, and its timer has
\* fired: three syncs were started and one timer is alive.
C28_Witness ==
    /\ scheduler.stats.totalSyncs = 3
    /\ scheduler.intervalId = 1
    /\ scheduler.timers = {1}
    /\ scheduler.isRunning

\* Auto-sync was stopped with a sync still waiting for its fetch.
C28_WitnessStopped ==
    /\ ~scheduler.isRunning
    /\ scheduler.timers = {}
    /\ scheduler.stats.totalSyncs >= 1
    /\ scheduler.awaiting >= 1

(***************************************************************************)
(* C29: a manual sync repeated against an unchanged sheet adds nothing.    *)
(***************************************************************************)
\* The store holds what one handleSyncGoogleForm of the sheet left in an
\* empty store, and the last response is that sync's.
SyncedOnce(sheetsData) ==
    /\ response.status = 200
    /\ students = sheetsData.students
    /\ attendance = AddAllAttendance(<<>>, sheetsData.attendance)

\* C29 as stated: handleSyncGoogleForm run again against the unchanged
\* sheet leaves the attendance records as the first run left them, so no
\* (student, date) record is duplicated.  Violated: the handler clears
\* students and faculty but pushes every attendance row of the sheet onto
\* the arrays the store already holds.
C29_Step ==
    \A sheetsData \in SheetsData :
        (SyncedOnce(sheetsData) /\ handleSyncGoogleForm(TRUE, TRUE, sheetsData))
            => attendance' = attendance
C29_SyncTwiceEqualsOnce == [][C29_Step]_vars

(***************************************************************************)
(* C30: getNextWorkingDay returns the earliest working date after d.       *)
(***************************************************************************)
\* C30 as stated: for every date d and holiday list H the call returns a
\* date strictly after d that is neither a Saturday or Sunday nor in H, and
\* every date strictly between d and the result is a weekend day or a
\* holiday.  Violated west of UTC, where the loop's isWeekend answers for
\* the day before (C18).
C30_EarliestWorkingDayAfter ==
    call.fn = "getNextWorkingDay" =>
        /\ call.value > input.date
        /\ IsWorkingDate(call.value, input.holidays)
        /\ \A d \in (input.date + 1) .. (call.value - 1) :
               ~IsWorkingDate(d, input.holidays)

\* The same statement for the timezones at or east of UTC, where it holds.
C30_AtOrEastOfUTC == tz >= 0 => C30_EarliestWorkingDayAfter

\* What holds in every timezone: the call returns, with a date strictly
\* after d that is not in H, and no later than the calendar allows: at most
\* two days are skipped beyond the holidays.
C30_ReturnsLaterNonHoliday ==
    call.fn = "getNextWorkingDay" =>
        /\ call.value > input.date
        /\ call.value \notin input.holidays
        /\ call.value <= input.date + 3 + Cardinality(input.holidays)

====
